---- MODULE Spec2Model ----
(***************************************************************************)
(* Release orchestration of autoship: runRelease (release.ts) driving      *)
(* GitOperations (git.ts) and GitHubOperations (github.ts).                *)
(* One run of runRelease is modelled as a state machine whose program      *)
(* counter advances at the awaits of the source.                           *)
(***************************************************************************)
EXTENDS Integers, Sequences, FiniteSets, TLC

\* ------------------------------------------------------------------ bounds
\* rows of one `gh pr checks` output
MaxChecks == 2
\* waitForChecks timeoutMs, counted in pollIntervalMs units
ChecksTimeout == 2
\* waitForVersionPackagesPR timeoutMs, counted in pollIntervalMs units
VersionTimeout == 2
\* pull-request numbers the review platform hands out
MaxPR == 2
\* commit messages a history query returns
MaxCommits == 1
\* largest timeoutMs a poll is called with
MaxTimeoutMs == 3
\* largest pollIntervalMs a poll is called with
MaxIntervalMs == 2
\* entries of one statusCheckRollup
MaxRollup == 1

\* ------------------------------------------------------------- vocabulary
ReleaseTypes == {"patch", "minor", "major"}
None == "none"
PRNumbers == 1..MaxPR
NoContext ==
  [previousVersion |-> None, commits |-> 0, diff |-> "",
   filesChanged |-> <<>>, insertions |-> 0, deletions |-> 0]
\* the argument of git.getRecentCommits(15)
FallbackCount == 15

\* names and status words that occur in the tabular `gh pr checks` output
ProbeWords == {"pass", "FAIL", "pending", "skipping", "neutral"}
BannerPhrases == {"Some checks are still pending",
                  "All checks were successful",
                  "Some checks were not successful"}
\* a line split at tabs: one field (banner or error text) or name + status
ProbeLines == {<<"All checks were successful">>, <<"no checks reported">>,
               <<"", "pass">>}
                \cup {<<"build", w>> : w \in ProbeWords}

VARIABLES
  opts,           \* options passed to runRelease: type, message, skipConfirmations
  pc,             \* position of the run inside runRelease
  workDirExists,  \* the WorkArea directory exists on disk
  latestTag,      \* result of git.getLatestVersionTag()
  diffContext,    \* the DiffContext built from the repository
  releaseType,    \* let releaseType
  releaseMessage, \* let releaseMessage (where the text came from)
  pr,             \* number of the changeset PR (0 before creation)
  versionPr,      \* number of the discovered version PR (0 before discovery)
  failedChecks,   \* names reported by the "Failed: <name>" lines of the gate
  elapsed,        \* Date.now() - startTime of the running poll, in intervals
  issued,         \* workflow steps started, in order
  completed,      \* workflow steps that returned successfully, in order
  prompts,        \* interactive prompts invoked, in order
  aiCalls,        \* Note Generator requests made
  merged,         \* PR numbers for which `gh pr merge` succeeded
  mergeIssued,    \* PR numbers for which `gh pr merge` was issued
  checksOk,       \* PR numbers for which waitForChecks returned success = true
  checksBad,      \* PR numbers for which waitForChecks returned success = false
  cleanupCalls,   \* invocations of git.cleanup()
  lastCleanup,    \* outcome of the last git.cleanup(): none / ok / threw
  pathOutcome,    \* how the path ended before cleanup: cancelled / paused / ...
  stopped,        \* the operator cancelled or declined: cancel / decline
  thrown,         \* the error travelling to the catch block
  reported,       \* the error logged by "Release failed: ..."
  exitCode,       \* process exit code, -1 while the process runs
  changesets,     \* changeset records written by git.generateChangeset()
  returnedChecks, \* the CheckRuns of the waitForChecks result a failing gate got
  effects,        \* what the run handed to git and to the review platform
  gh,             \* a GitHubOperations method called on its own
  ai,             \* a Note Generator function called on its own
  pure,           \* a function without side effects called on its own
  cli             \* a command of the command line other than a release run

vars == <<opts, pc, workDirExists, latestTag, diffContext, releaseType, releaseMessage, pr,
          versionPr, failedChecks, elapsed, issued, completed, prompts, aiCalls,
          merged, mergeIssued, checksOk, checksBad, cleanupCalls, lastCleanup,
          pathOutcome, stopped, thrown, reported, exitCode, changesets,
          returnedChecks, effects, gh, ai, pure, cli>>

\* the state of the standalone calls, untouched by a run of runRelease
harness == <<gh, ai, pure, cli>>

\* the state of a run of runRelease, untouched by a standalone call
runVars == <<opts, pc, workDirExists, latestTag, diffContext, releaseType,
             releaseMessage, pr, versionPr, failedChecks, elapsed, issued,
             completed, prompts, aiCalls, merged, mergeIssued, checksOk,
             checksBad, cleanupCalls, lastCleanup, pathOutcome, stopped, thrown,
             reported, exitCode, changesets, returnedChecks, effects>>

\* what the failing check gate received
gateLog == <<returnedChecks>>

\* ------------------------------------------------------- order of the code
\* the statements of runRelease in source order
PcOrder == <<"clone", "identify", "tag", "diff", "type", "message", "branch",
             "changeset", "confirmPush", "commit", "push", "createPR",
             "confirmWait", "waitChecks", "confirmMerge", "merge",
             "waitVersionPR", "confirmVersion", "waitVersionChecks",
             "confirmMergeVersion", "mergeVersion", "finish">>

PcIndex(s) == CHOOSE i \in 1..Len(PcOrder) : PcOrder[i] = s

NextPcSwapped(s) ==
  IF s = "confirmPush" THEN "push"
  ELSE IF s = "push" THEN "commit"
  ELSE IF s = "commit" THEN "createPR"
  ELSE PcOrder[PcIndex(s) + 1]

NextPc(s) == PcOrder[PcIndex(s) + 1]

Elems(s) == {s[i] : i \in 1..Len(s)}

\* no standalone call is in progress
GhIdle ==
  [fn |-> None, at |-> "idle", timeoutMs |-> 0, pollIntervalMs |-> 0,
   now |-> 0, probes |-> 0, sleeps |-> 0, unsatisfied |-> 0, threw |-> FALSE,
   last |-> <<>>, observed |-> FALSE, result |-> None, error |-> None,
   openBefore |-> {}]

AiIdle ==
  [fn |-> None, at |-> "idle", context |-> NoContext, releaseType |-> None,
   calls |-> 0, response |-> None, result |-> None, threw |-> FALSE]

PureIdle == [fn |-> None, at |-> "idle", arg |-> None, out |-> None]

\* no WorkArea path: GitOperations not constructed
NoDir == [repo |-> None, suffix |-> 0]

\* waitForChecks not called by the merge command
NotWaited == [called |-> FALSE, threw |-> FALSE, success |-> FALSE]

\* no command running. json is the --json flag, wait the --wait flag, emitted
\* the objects given to outputJson, checks the outcome of waitForChecks,
\* workDir the path of this command's GitOperations, dirs the directories
\* under getTempDir(), other the WorkArea of a run executing at the same
\* time, touched the directories this command removed or cloned into
CliIdle ==
  [cmd |-> None, at |-> "idle", json |-> FALSE, wait |-> FALSE, emitted |-> <<>>,
   exitCode |-> -1, checks |-> NotWaited, mergeCalls |-> 0, workDir |-> NoDir,
   cloned |-> FALSE, dirs |-> {}, other |-> NoDir, touched |-> {}]

\* nothing handed over yet: no history query, no branch, no file, no commit,
\* no `gh pr create`
NoEffects ==
  [queries |-> {}, branchName |-> <<>>, written |-> <<>>, commitMessage |-> <<>>,
   created |-> FALSE, matched |-> FALSE, viewed |-> FALSE,
   prTitle |-> <<>>, prBody |-> <<>>]

\* the options runRelease can be called with
ReleaseOptions ==
  [type : ReleaseTypes \cup {None}, message : BOOLEAN, skipConfirmations : BOOLEAN]

\* the state of a run at the entry of runRelease
RunInit(optionSet) ==
  /\ opts \in optionSet
  /\ pc = "clone"
  /\ workDirExists = FALSE
  /\ latestTag = None
  /\ diffContext = NoContext
  /\ releaseType = None
  /\ releaseMessage = None
  /\ pr = 0
  /\ versionPr = 0
  /\ failedChecks = <<>>
  /\ elapsed = 0
  /\ issued = <<>>
  /\ completed = <<>>
  /\ prompts = <<>>
  /\ aiCalls = 0
  /\ merged = {}
  /\ mergeIssued = {}
  /\ checksOk = {}
  /\ checksBad = {}
  /\ cleanupCalls = 0
  /\ lastCleanup = None
  /\ pathOutcome = None
  /\ stopped = None
  /\ thrown = None
  /\ reported = None
  /\ exitCode = -1
  /\ changesets = <<>>
  /\ returnedChecks = {}
  /\ effects = NoEffects

Init ==
  /\ RunInit(ReleaseOptions)
  /\ gh = GhIdle
  /\ ai = AiIdle
  /\ pure = PureIdle
  /\ cli = CliIdle

\* ---------------------------------------------------------------- helpers
\* fs.rmSync inside git.cleanup() can fail only when the directory exists
CleanupResults == IF workDirExists THEN {"ok", "threw"} ELSE {"ok"}

\* continue with the statement at `next`
Goto(next) ==
  /\ pc' = next
  /\ UNCHANGED <<thrown, pathOutcome, exitCode, cleanupCalls, lastCleanup,
                 workDirExists, reported>>

\* an await inside the try block rejects: control moves to the catch block
Throw(name) ==
  /\ pc' = "catch"
  /\ thrown' = name
  /\ pathOutcome' = "error"
  /\ UNCHANGED <<exitCode, cleanupCalls, lastCleanup, workDirExists, reported>>

CleanupAndEndSkipped(code, outcome, r) ==
  /\ pathOutcome' = outcome
  /\ pc' = "exit"
  /\ exitCode' = code
  /\ UNCHANGED <<cleanupCalls, lastCleanup, workDirExists, thrown, reported>>

\* `await git.cleanup(); process.exit(code)` or `await git.cleanup(); return`
\* inside the try block; r is the outcome of the removal.  A return of
\* runRelease ends the command action and the process exits with code 0; a
\* throwing cleanup is caught by the outer catch.
CleanupAndEnd(code, outcome, r) ==
  /\ pathOutcome' = outcome
  /\ cleanupCalls' = cleanupCalls + 1
  /\ lastCleanup' = r
  /\ reported' = reported
  /\ IF r = "ok"
       THEN /\ workDirExists' = FALSE
            /\ pc' = "exit"
            /\ exitCode' = code
            /\ thrown' = thrown
       ELSE /\ workDirExists' = workDirExists
            /\ pc' = "catch"
            /\ thrown' = "cleanup"
            /\ exitCode' = exitCode

StepSwallowing(name, ok) ==
  /\ issued' = Append(issued, name)
  /\ completed' = IF ok THEN Append(completed, name) ELSE completed
  /\ Goto(NextPc(name))

\* `await <operation>()` inside the try block: continue when it resolves,
\* jump to the catch block when it rejects
Step(name, ok) ==
  /\ issued' = Append(issued, name)
  /\ IF ok
       THEN /\ completed' = Append(completed, name)
            /\ Goto(NextPc(name))
       ELSE /\ completed' = completed
            /\ Throw(name)

\* the step `name` is running (a poll loop issues it once)
Issue(name) ==
  IF issued # <<>> /\ issued[Len(issued)] = name THEN issued
  ELSE Append(issued, name)

\* -------------------------------------------------- steps 1-3 of the code
\* git.clone(): a failing clone may leave a partially created directory
Clone ==
  /\ pc = "clone"
  /\ \E ok \in BOOLEAN, partial \in BOOLEAN :
       /\ issued' = Append(issued, "clone")
       /\ IF ok
            THEN /\ completed' = Append(completed, "clone")
                 /\ workDirExists' = TRUE
                 /\ pc' = NextPc("clone")
                 /\ UNCHANGED <<thrown, pathOutcome>>
            ELSE /\ completed' = completed
                 /\ workDirExists' = partial
                 /\ pc' = "catch"
                 /\ thrown' = "clone"
                 /\ pathOutcome' = "error"
  /\ UNCHANGED <<harness, effects, changesets, gateLog, opts, latestTag, diffContext, releaseType, releaseMessage, pr, versionPr,
                 failedChecks, elapsed, prompts, aiCalls, merged, mergeIssued,
                 checksOk, checksBad, cleanupCalls, lastCleanup, stopped,
                 reported, exitCode>>

\* git.getPackageName() and git.getPackageVersion()
Identify ==
  /\ pc = "identify"
  /\ \E ok \in BOOLEAN : Step("identify", ok)
  /\ UNCHANGED <<harness, effects, changesets, gateLog, opts, latestTag, diffContext, releaseType, releaseMessage, pr, versionPr,
                 failedChecks, elapsed, prompts, aiCalls, merged, mergeIssued,
                 checksOk, checksBad, stopped>>

\* git.getLatestVersionTag(): a tag, null, or a failing fetch
GetLatestVersionTag ==
  /\ pc = "tag"
  /\ \E res \in {"v1", None, "threw"} :
       /\ Step("tag", res # "threw")
       /\ latestTag' = IF res = "threw" THEN latestTag ELSE res
  /\ UNCHANGED <<harness, effects, changesets, gateLog, opts, diffContext, releaseType, releaseMessage, pr, versionPr,
                 failedChecks, elapsed, prompts, aiCalls, merged, mergeIssued,
                 checksOk, checksBad, stopped>>

\* lengths of the commit history of the cloned repository: shorter than the
\* fallback count, or longer
HistorySizes == 0..(MaxCommits - 1) \cup {FallbackCount + MaxCommits}

\* git.log([`-${count}`, '--oneline']): the `count` newest commits
GetRecentCommitsAll(count, history) == history

GetRecentCommits(count, history) == IF history > count THEN count ELSE history

\* the history queries the two branches of `if (latestTag)` start
HistoryQueries(tag) ==
  IF tag # None
    THEN {"getCommitsSinceTag", "getDiffSummary", "getFullDiffSinceTag"}
    ELSE {"getRecentCommits"}

\* build the DiffContext: three tag-relative queries when a tag was found,
\* otherwise getRecentCommits(15) with an empty diff
BuildDiffContext ==
  /\ pc = "diff"
  /\ \E ok \in BOOLEAN, n \in 0..MaxCommits, h \in HistorySizes :
       /\ Step("diff", ok)
       /\ diffContext' =
            IF ~ok THEN diffContext
            ELSE IF latestTag # None
              THEN [previousVersion |-> latestTag, commits |-> n, diff |-> "tagdiff",
                    filesChanged |-> <<"package.json">>,
                    insertions |-> 1, deletions |-> 1]
              ELSE [previousVersion |-> "unknown",
                    commits |-> GetRecentCommits(FallbackCount, h), diff |-> "",
                    filesChanged |-> <<>>, insertions |-> 0, deletions |-> 0]
       /\ effects' = [effects EXCEPT !.queries = HistoryQueries(latestTag)]
  /\ UNCHANGED <<harness, changesets, gateLog, opts, latestTag, releaseType, releaseMessage, pr, versionPr,
                 failedChecks, elapsed, prompts, aiCalls, merged, mergeIssued,
                 checksOk, checksBad, stopped>>

\* ------------------------------------------------ release type and message
\* options.type, or suggestReleaseType (no generator request for an empty
\* commit list) followed by the select prompt
DecideType ==
  /\ pc = "type"
  /\ issued' = Append(issued, "type")
  /\ IF opts.type # None
       THEN /\ releaseType' = opts.type
            /\ completed' = Append(completed, "type")
            /\ Goto(NextPc("type"))
            /\ UNCHANGED <<prompts, aiCalls, stopped>>
       ELSE /\ aiCalls' = IF diffContext.commits = 0 THEN aiCalls ELSE aiCalls + 1
            /\ prompts' = Append(prompts, "select")
            /\ \E answer \in ReleaseTypes \cup {"cancel"} :
                 IF answer = "cancel"
                   THEN /\ stopped' = "cancel"
                        /\ UNCHANGED <<releaseType, completed>>
                        /\ \E r \in CleanupResults :
                             CleanupAndEnd(0, "cancelled", r)
                   ELSE /\ releaseType' = answer
                        /\ completed' = Append(completed, "type")
                        /\ Goto(NextPc("type"))
                        /\ stopped' = stopped
  /\ UNCHANGED <<harness, effects, changesets, gateLog, opts, latestTag, diffContext, releaseMessage, pr, versionPr,
                 failedChecks, elapsed, merged, mergeIssued, checksOk, checksBad>>

OnGeneratorFailureAbort == Throw("message")

\* generateChangesetMessage rejected: the inner catch takes over
OnGeneratorFailure == Goto("messageFallback")

\* options.message, or generateChangesetMessage followed by the
\* "Use this description?" confirm and the "Enter your own description" text
\* prompt.  The cleanup of a cancelled prompt runs inside the inner try, so
\* a failing removal is caught by the inner catch and leads to the fallback
\* prompt.
DecideMessage ==
  /\ pc = "message"
  /\ issued' = Append(issued, "message")
  /\ IF opts.message
       THEN /\ releaseMessage' = "explicit"
            /\ completed' = Append(completed, "message")
            /\ Goto(NextPc("message"))
            /\ UNCHANGED <<prompts, aiCalls, stopped>>
       ELSE /\ aiCalls' = aiCalls + 1
            /\ \E aiOk \in BOOLEAN, useAi \in {"cancel", "yes", "no"},
                  custom \in {"cancel", "text"} :
                 IF ~aiOk
                   THEN /\ OnGeneratorFailure
                        /\ UNCHANGED <<releaseMessage, completed, prompts, stopped>>
                   ELSE
                     /\ prompts' = IF useAi = "no"
                                     THEN prompts \o <<"confirm", "text">>
                                     ELSE Append(prompts, "confirm")
                     /\ IF useAi = "yes" \/ (useAi = "no" /\ custom = "text")
                          THEN /\ releaseMessage' =
                                    IF useAi = "yes" THEN "ai" ELSE "custom"
                               /\ completed' = Append(completed, "message")
                               /\ Goto(NextPc("message"))
                               /\ stopped' = stopped
                          ELSE /\ stopped' = "cancel"
                               /\ UNCHANGED <<releaseMessage, completed>>
                               /\ pathOutcome' = "cancelled"
                               /\ cleanupCalls' = cleanupCalls + 1
                               /\ UNCHANGED <<thrown, reported>>
                               /\ \E r \in CleanupResults :
                                    /\ lastCleanup' = r
                                    /\ IF r = "ok"
                                         THEN /\ workDirExists' = FALSE
                                              /\ pc' = "exit"
                                              /\ exitCode' = 0
                                         ELSE /\ pc' = "messageFallback"
                                              /\ UNCHANGED <<workDirExists, exitCode>>
  /\ UNCHANGED <<harness, effects, changesets, gateLog, opts, latestTag, diffContext, releaseType, pr, versionPr,
                 failedChecks, elapsed, merged, mergeIssued, checksOk, checksBad>>

\* the inner catch block: "Describe the changes for this release" text prompt
FallbackMessage ==
  /\ pc = "messageFallback"
  /\ prompts' = Append(prompts, "text")
  /\ \E answer \in {"cancel", "text"} :
       IF answer = "cancel"
         THEN /\ stopped' = "cancel"
              /\ UNCHANGED <<releaseMessage, completed>>
              /\ \E r \in CleanupResults : CleanupAndEnd(0, "cancelled", r)
         ELSE /\ releaseMessage' = "fallback"
              /\ completed' = Append(completed, "message")
              /\ Goto(NextPc("message"))
              /\ stopped' = stopped
  /\ UNCHANGED <<harness, effects, changesets, gateLog, opts, latestTag, diffContext, releaseType, pr, versionPr,
                 failedChecks, elapsed, issued, aiCalls, merged, mergeIssued,
                 checksOk, checksBad>>

\* ------------------------------------------------ branch, changeset, push
\* const fullOptions = {type: releaseType, message: releaseMessage, ...}
FullOptions ==
  [type |-> releaseType, message |-> releaseMessage,
   skipConfirmations |-> opts.skipConfirmations]

\* `release/${fullOptions.type}-${Date.now()}`
BranchName(fullOptions) == <<"release/", fullOptions.type, "-", "Date.now()">>

\* git.createBranch(branchName)
CreateBranch ==
  /\ pc = "branch"
  /\ \E ok \in BOOLEAN : Step("branch", ok)
  /\ effects' = [effects EXCEPT !.branchName = BranchName(FullOptions)]
  /\ UNCHANGED <<harness, changesets, gateLog, opts, latestTag, diffContext, releaseType, releaseMessage, pr,
                 versionPr, failedChecks, elapsed, prompts, aiCalls, merged,
                 mergeIssued, checksOk, checksBad, stopped>>

\* the content written by generateChangeset: the package entry with
\* options.type, and options.message
ChangesetContentPatch(options) == [type |-> "patch", message |-> options.message]

ChangesetContent(options) == [type |-> options.type, message |-> options.message]

\* the package name read from package.json by git.getPackageName()
PackageName == "pkg"

\* a `string | string[]` argument holding one string
OneString(str) == [isArray |-> FALSE, str |-> str, arr |-> <<>>]

\* Array.isArray(packageNames) ? packageNames : [packageNames]
NormalizedPackageNames(packageNames) ==
  IF packageNames.isArray THEN packageNames.arr ELSE <<packageNames.str>>

\* normalizedPackageNames.map(name => `"${name}": ${options.type}`)
PackageEntries(options, packageNames) ==
  LET names == NormalizedPackageNames(packageNames) IN
  [i \in 1..Len(names) |-> [name |-> names[i], type |-> options.type]]

\* `release-${randomBytes(4).toString('hex')}`: the prefix and eight
\* random hexadecimal digits
ChangesetId == <<"release-", "<8 hex digits>">>

\* the writeFileSync call of generateChangeset: the path below the work
\* directory and the content (front matter with the entries, then the message)
ChangesetFileTwice(options, packageNames) ==
  LET file == [dir |-> <<"workDir", ".changeset">>,
               name |-> <<ChangesetId, ".md">>,
               entries |-> PackageEntries(options, packageNames),
               message |-> options.message]
  IN <<file, file>>

ChangesetFile(options, packageNames) ==
  <<[dir |-> <<"workDir", ".changeset">>,
     name |-> <<ChangesetId, ".md">>,
     entries |-> PackageEntries(options, packageNames),
     message |-> options.message]>>

\* git.generateChangeset(fullOptions, packageName); fullOptions takes
\* releaseType and releaseMessage; a failing writeFileSync rejects
GenerateChangeset ==
  /\ pc = "changeset"
  /\ \E ok \in BOOLEAN :
       /\ Step("changeset", ok)
       /\ changesets' =
            IF ok THEN Append(changesets,
                         ChangesetContent([type |-> releaseType,
                                           message |-> releaseMessage]))
            ELSE changesets
       /\ effects' =
            IF ok THEN [effects EXCEPT !.written =
                          @ \o ChangesetFile(FullOptions, OneString(PackageName))]
            ELSE effects
  /\ UNCHANGED <<harness, gateLog, opts, latestTag, diffContext, releaseType, releaseMessage, pr,
                 versionPr, failedChecks, elapsed, prompts, aiCalls, merged,
                 mergeIssued, checksOk, checksBad, stopped>>

\* a confirmation point: skipped with skipConfirmations, otherwise the
\* operator confirms, declines (cleanup, return) or cancels (cleanup, exit 0)
Confirm(at) ==
  /\ pc = at
  /\ IF opts.skipConfirmations
       THEN /\ Goto(NextPc(at))
            /\ UNCHANGED <<prompts, stopped>>
       ELSE /\ prompts' = Append(prompts, "confirm")
            /\ \E answer \in {"cancel", "yes", "no"} :
                 IF answer = "yes"
                   THEN /\ Goto(NextPc(at))
                        /\ stopped' = stopped
                   ELSE /\ stopped' = IF answer = "cancel" THEN "cancel" ELSE "decline"
                        /\ \E r \in CleanupResults :
                             CleanupAndEnd(0,
                               IF answer = "cancel" THEN "cancelled" ELSE "paused", r)
  /\ UNCHANGED <<harness, effects, changesets, gateLog, opts, latestTag, diffContext, releaseType, releaseMessage, pr,
                 versionPr, failedChecks, elapsed, issued, completed, aiCalls, merged,
                 mergeIssued, checksOk, checksBad>>

\* "Push changes and create PR?"
ConfirmPush == Confirm("confirmPush")

\* `chore: add ${fullOptions.type} changeset for release`
CommitMessagePatch(fullOptions) == <<"chore: add ", "patch", " changeset for release">>

CommitMessage(fullOptions) ==
  <<"chore: add ", fullOptions.type, " changeset for release">>

\* git.stageAndCommit(...)
StageAndCommit ==
  /\ pc = "commit"
  /\ \E ok \in BOOLEAN : Step("commit", ok)
  /\ effects' = [effects EXCEPT !.commitMessage = CommitMessage(FullOptions)]
  /\ UNCHANGED <<harness, changesets, gateLog, opts, latestTag, diffContext, releaseType, releaseMessage, pr,
                 versionPr, failedChecks, elapsed, prompts, aiCalls, merged,
                 mergeIssued, checksOk, checksBad, stopped>>

\* git.push(branchName)
Push ==
  /\ pc = "push"
  /\ \E ok \in BOOLEAN : Step("push", ok)
  /\ UNCHANGED <<harness, effects, changesets, gateLog, opts, latestTag, diffContext, releaseType, releaseMessage, pr,
                 versionPr, failedChecks, elapsed, prompts, aiCalls, merged,
                 mergeIssued, checksOk, checksBad, stopped>>

\* `chore: ${fullOptions.type} release - ${fullOptions.message.slice(0, 50)}`
PrTitle(fullOptions) ==
  <<"chore: ", fullOptions.type, " release - ",
    [slice |-> <<0, 50>>, of |-> fullOptions.message]>>

\* the body template of the changeset PR
PrBody(fullOptions) ==
  <<"## Release Changeset", "**Type:** ", fullOptions.type,
    "**Changes:**", fullOptions.message,
    "*This PR was created automatically by autoship*">>

\* decimal digit strings and parseInt(<digits>, 10) on them
DigitStrings == {"1", "2", "3", "4"}

ParseInt(d) == CASE d = "1" -> 1 [] d = "2" -> 2 [] d = "3" -> 3 [] d = "4" -> 4

\* what `gh pr create` printed, split at "/": the URL of the new PR, or
\* text without /pull/<digits>
PrCreateOutputs ==
  {<<"https:", "", "github.com", "o", "r", "pull", d>> :
     d \in {x \in DigitStrings : ParseInt(x) \in PRNumbers}}
    \cup {<<"https:", "", "github.com", "o", "r", "issues", "1">>,
          <<"https:", "", "github.com", "o", "r", "pull", "">>, <<"">>}

\* prUrl.match(/\/pull\/(\d+)/): the positions of the digits of a match
PrNumberMatch(prUrl) ==
  {i \in 2..Len(prUrl) : prUrl[i - 1] = "pull" /\ prUrl[i] \in DigitStrings}

\* `gh pr view` runs only after `if (!prNumberMatch) throw ...` was passed
ViewQueriedAlways(created, prUrl) == created

ViewQueried(created, prUrl) == created /\ PrNumberMatch(prUrl) # {}

\* github.createPullRequest(...): `gh pr create`, the /pull/<digits> match
\* (an error when it fails), then `gh pr view`; each command can fail
CreatePullRequest ==
  /\ pc = "createPR"
  /\ \E created \in BOOLEAN, prUrl \in PrCreateOutputs, viewOk \in BOOLEAN :
       LET match == PrNumberMatch(prUrl)
           matched == created /\ match # {}
           viewed == ViewQueried(created, prUrl)
           ok == matched /\ viewed /\ viewOk
       IN /\ Step("createPR", ok)
          /\ pr' = IF ok THEN ParseInt(prUrl[CHOOSE i \in match : TRUE]) ELSE pr
          /\ effects' = [effects EXCEPT !.created = created,
                                        !.matched = matched,
                                        !.viewed = viewed,
                                        !.prTitle = PrTitle(FullOptions),
                                        !.prBody = PrBody(FullOptions)]
  /\ UNCHANGED <<harness, changesets, gateLog, opts, latestTag, diffContext, releaseType, releaseMessage,
                 versionPr, failedChecks, elapsed, prompts, aiCalls, merged,
                 mergeIssued, checksOk, checksBad, stopped>>

\* "Wait for CI checks to pass?"
ConfirmWait == Confirm("confirmWait")

\* ------------------------------------------------------- waitForChecks
\* statusStr = parts[1].trim().toLowerCase()
ToLower(w) ==
  CASE w = "FAIL" -> "fail"
    [] w = "PASS" -> "pass"
    [] w = "MAJOR" -> "major"
    [] w = "Minor" -> "minor"
    [] OTHER -> w

\* String.prototype.trim on the fields that occur
TrimField(w) ==
  CASE w = " " -> ""
    [] w = " pass " -> "pass"
    [] w = "build " -> "build"
    [] OTHER -> w

\* the if / else-if chain that classifies the status word of one row
TabularStatusNoSkip(word) ==
  LET w == ToLower(TrimField(word)) IN
  IF w \in {"pass", "success"} THEN [status |-> "completed", conclusion |-> "success"]
  ELSE IF w \in {"fail", "failure"} THEN [status |-> "completed", conclusion |-> "failure"]
  ELSE IF w \in {"pending", "in_progress"} THEN [status |-> "in_progress", conclusion |-> "null"]
  ELSE [status |-> "queued", conclusion |-> "null"]

TabularStatus(word) ==
  LET w == ToLower(TrimField(word)) IN
  IF w \in {"pass", "success"} THEN [status |-> "completed", conclusion |-> "success"]
  ELSE IF w \in {"fail", "failure"} THEN [status |-> "completed", conclusion |-> "failure"]
  ELSE IF w \in {"pending", "in_progress"} THEN [status |-> "in_progress", conclusion |-> "null"]
  ELSE IF w \in {"skipping", "skipped"} THEN [status |-> "completed", conclusion |-> "skipped"]
  ELSE [status |-> "queued", conclusion |-> "null"]

\* line.includes(<banner phrase>)
IsBanner(line) == \E i \in 1..Len(line) : line[i] \in BannerPhrases

\* the rows of the output that contribute a CheckRun
CheckRows(lines) ==
  SelectSeq(lines, LAMBDA l : ~IsBanner(l) /\ Len(l) >= 2 /\ TrimField(l[1]) # "")

\* the parsing loop of waitForChecks
ParseChecks(lines) ==
  LET rows == CheckRows(lines) IN
  [i \in 1..Len(rows) |->
     [name |-> TrimField(rows[i][1]),
      status |-> TabularStatus(rows[i][2]).status,
      conclusion |-> TabularStatus(rows[i][2]).conclusion]]

AllCompletedNever(cs) == FALSE

AllCompleted(cs) == \A i \in 1..Len(cs) : cs[i].status = "completed"

AllSuccessAlways(cs) == TRUE

AllSuccess(cs) == \A i \in 1..Len(cs) : cs[i].conclusion \in {"success", "skipped"}

\* what one `gh pr checks` probe can yield: a failing exec, or printed lines
ProbeResults ==
  {[threw |-> TRUE, lines |-> <<>>]}
    \cup {[threw |-> FALSE, lines |-> o] :
             o \in UNION {[1..k -> ProbeLines] : k \in 0..MaxChecks}}

\* the `checks` array one loop iteration ends up with: empty when exec threw
Snapshot(probe) == IF probe.threw THEN <<>> ELSE ParseChecks(probe.lines)

\* the snapshots the probes can produce
ProbeSnapshots == {Snapshot(probe) : probe \in ProbeResults}

\* checks.filter(c => c.conclusion === 'failure'), by name
FailedNamesNone(cs) == <<>>

FailedNames(cs) ==
  LET f == SelectSeq(cs, LAMBDA c : c.conclusion = "failure") IN
  [i \in 1..Len(f) |-> f[i].name]

ChangesetGateOpen(checksPass) == TRUE

\* `if (!checksPass) { ...; process.exit(1) }` after the changeset PR wait
ChangesetGate(checksPass) == checksPass

VersionGateOpen(versionChecksPass) == TRUE

\* `if (!versionChecksPass) { ...; process.exit(1) }` after the version PR wait
VersionGate(versionChecksPass) == versionChecksPass

\* one iteration of the loop of waitForChecks(n), with the gate that follows
\* its return in runRelease; only the changeset gate lists the failed checks
WaitForChecks(at, n, cs) ==
  /\ pc = at
  /\ issued' = Issue(at)
  /\ IF elapsed >= ChecksTimeout
       THEN /\ Throw("checksTimeout")
            /\ UNCHANGED <<failedChecks, elapsed, completed, checksOk, checksBad,
                           gateLog>>
       ELSE LET gate == IF at = "waitChecks" THEN ChangesetGate(AllSuccess(cs))
                        ELSE VersionGate(AllSuccess(cs))
            IN
            IF Len(cs) = 0 \/ ~AllCompleted(cs)
              THEN /\ elapsed' = elapsed + 1
                   /\ Goto(at)
                   /\ UNCHANGED <<failedChecks, completed, checksOk, checksBad,
                                  gateLog>>
              ELSE /\ elapsed' = 0
                   /\ checksOk' = IF AllSuccess(cs) THEN checksOk \cup {n} ELSE checksOk
                   /\ checksBad' = IF AllSuccess(cs) THEN checksBad ELSE checksBad \cup {n}
                   /\ IF gate
                        THEN /\ completed' = Append(completed, at)
                             /\ UNCHANGED <<failedChecks, gateLog>>
                             /\ Goto(NextPc(at))
                        ELSE /\ completed' = completed
                             /\ failedChecks' = IF at = "waitChecks"
                                                 THEN FailedNames(cs)
                                                 ELSE failedChecks
                             /\ returnedChecks' = Elems(cs)
                             /\ \E r \in CleanupResults :
                                  CleanupAndEnd(1, "checksFailed", r)
  /\ UNCHANGED <<harness, effects, changesets, opts, latestTag, diffContext, releaseType,
                 releaseMessage, pr, versionPr, prompts, aiCalls, merged,
                 mergeIssued, stopped>>

\* step 7: github.waitForChecks(pr.number)
WaitChangesetChecks ==
  \E cs \in ProbeSnapshots : WaitForChecks("waitChecks", pr, cs)

\* "Merge the changeset PR?"
ConfirmMerge == Confirm("confirmMerge")

\* step 8: github.mergePullRequest(pr.number); deleteBranch only logs
MergeChangesetPR ==
  /\ pc = "merge"
  /\ \E ok \in BOOLEAN :
       /\ Step("merge", ok)
       /\ mergeIssued' = mergeIssued \cup {pr}
       /\ merged' = IF ok THEN merged \cup {pr} ELSE merged
  /\ UNCHANGED <<harness, effects, changesets, gateLog, opts, latestTag, diffContext, releaseType, releaseMessage, pr,
                 versionPr, failedChecks, elapsed, prompts, aiCalls, checksOk,
                 checksBad, stopped>>

\* step 9: one iteration of the loop of waitForVersionPackagesPR();
\* found = 0 stands for null (no open PR, or a failing `gh pr list`)
WaitForVersionPackagesPR ==
  /\ pc = "waitVersionPR"
  /\ issued' = Issue("waitVersionPR")
  /\ IF elapsed >= VersionTimeout
       THEN /\ Throw("versionTimeout")
            /\ UNCHANGED <<versionPr, elapsed, completed>>
       ELSE \E found \in {0} \cup (PRNumbers \ {pr}) :
              IF found = 0
                THEN /\ elapsed' = elapsed + 1
                     /\ Goto("waitVersionPR")
                     /\ UNCHANGED <<versionPr, completed>>
                ELSE /\ elapsed' = 0
                     /\ versionPr' = found
                     /\ completed' = Append(completed, "waitVersionPR")
                     /\ Goto(NextPc("waitVersionPR"))
  /\ UNCHANGED <<harness, effects, changesets, gateLog, opts, latestTag, diffContext, releaseType, releaseMessage, pr,
                 failedChecks, prompts, aiCalls, merged, mergeIssued, checksOk,
                 checksBad, stopped>>

\* "Wait for checks and merge the Version Packages PR?"
ConfirmVersion == Confirm("confirmVersion")

\* github.waitForChecks(versionPr.number)
WaitVersionChecks ==
  \E cs \in ProbeSnapshots : WaitForChecks("waitVersionChecks", versionPr, cs)

\* "Merge the Version Packages PR to publish the release?"
ConfirmMergeVersion == Confirm("confirmMergeVersion")

\* step 10: github.mergePullRequest(versionPr.number)
MergeVersionPR ==
  /\ pc = "mergeVersion"
  /\ \E ok \in BOOLEAN :
       /\ Step("mergeVersion", ok)
       /\ mergeIssued' = mergeIssued \cup {versionPr}
       /\ merged' = IF ok THEN merged \cup {versionPr} ELSE merged
  /\ UNCHANGED <<harness, effects, changesets, gateLog, opts, latestTag, diffContext, releaseType, releaseMessage, pr,
                 versionPr, failedChecks, elapsed, prompts, aiCalls, checksOk,
                 checksBad, stopped>>

\* "Release Complete!", the final git.cleanup() and the return of runRelease
Finish ==
  /\ pc = "finish"
  /\ \E r \in CleanupResults : CleanupAndEnd(0, "success", r)
  /\ UNCHANGED <<harness, effects, changesets, gateLog, opts, latestTag, diffContext, releaseType, releaseMessage, pr,
                 versionPr, failedChecks, elapsed, issued, completed, prompts,
                 aiCalls, merged, mergeIssued, checksOk, checksBad, stopped>>

\* the catch block: log "Release failed", try the cleanup and ignore its
\* failure, process.exit(1)
Catch ==
  /\ pc = "catch"
  /\ reported' = thrown
  /\ cleanupCalls' = cleanupCalls + 1
  /\ \E r \in CleanupResults :
       /\ lastCleanup' = r
       /\ workDirExists' = IF r = "ok" THEN FALSE ELSE workDirExists
  /\ exitCode' = 1
  /\ pc' = "exit"
  /\ UNCHANGED <<harness, effects, changesets, gateLog, opts, latestTag, diffContext, releaseType, releaseMessage, pr,
                 versionPr, failedChecks, elapsed, issued, completed, prompts,
                 aiCalls, merged, mergeIssued, checksOk, checksBad,
                 pathOutcome, stopped, thrown>>

Next ==
  \/ Clone
  \/ Identify
  \/ GetLatestVersionTag
  \/ BuildDiffContext
  \/ DecideType
  \/ DecideMessage
  \/ FallbackMessage
  \/ CreateBranch
  \/ GenerateChangeset
  \/ ConfirmPush
  \/ StageAndCommit
  \/ Push
  \/ CreatePullRequest
  \/ ConfirmWait
  \/ WaitChangesetChecks
  \/ ConfirmMerge
  \/ MergeChangesetPR
  \/ WaitForVersionPackagesPR
  \/ ConfirmVersion
  \/ WaitVersionChecks
  \/ ConfirmMergeVersion
  \/ MergeVersionPR
  \/ Finish
  \/ Catch

Spec == Init /\ [][Next]_vars

\* the run has ended: process.exit was called or runRelease returned
Terminated == pc = "exit"

TypeOK ==
  /\ pc \in {PcOrder[i] : i \in 1..Len(PcOrder)} \cup {"messageFallback", "catch", "exit"}
  /\ exitCode \in {-1, 0, 1}
  /\ cleanupCalls \in 0..3
  /\ Len(failedChecks) <= MaxChecks

\* ================================== GitHubOperations methods on their own
\* waitForChecks and waitForVersionPackagesPR called with a timeout and an
\* interval, getCheckRuns and findVersionPackagesPR called once
PollFns == {"waitForChecks", "waitForVersionPackagesPR"}

CallFns == {"getCheckRuns", "findVersionPackagesPR"}

\* the options of the run that is not taking place
DefaultOptions == [type |-> None, message |-> FALSE, skipConfirmations |-> FALSE]

\* the PRs already open on the changeset-release/<base> head when the
\* caller starts to wait for the version PR
OpenBefore(fn) ==
  IF fn = "waitForVersionPackagesPR" THEN SUBSET PRNumbers ELSE {{}}

\* the calls a caller can make
GhCalls ==
  UNION {{[GhIdle EXCEPT !.fn = f, !.at = "loop", !.timeoutMs = t,
                         !.pollIntervalMs = i, !.openBefore = ob] :
            t \in 0..MaxTimeoutMs, i \in 1..MaxIntervalMs, ob \in OpenBefore(f)} :
         f \in PollFns}
    \cup {[GhIdle EXCEPT !.fn = f, !.at = "call"] : f \in CallFns}

InitGitHub ==
  /\ RunInit({DefaultOptions})
  /\ gh \in GhCalls
  /\ ai = AiIdle
  /\ pure = PureIdle
  /\ cli = CliIdle

\* the message of the error thrown after the loop
TimeoutMessage(fn) ==
  IF fn = "waitForChecks" THEN "Timeout waiting for checks to complete"
  ELSE "Timeout waiting for Version Packages PR"

\* new Error(message): the error holds its message and carries nothing else
NewError(message) == [message |-> message, carries |-> {}]

\* the loop test `Date.now() - startTime < timeoutMs`
WithinTimeout(g) == g.now < g.timeoutMs

\* counts loop passes; no poll makes more than MaxTimeoutMs of them, and the
\* count stops above that
Tick(n) == IF n <= MaxTimeoutMs THEN n + 1 ELSE n

SleepStuck(now, ms) == now

\* this.sleep(ms): the clock after the timer fired
Sleep(now, ms) == now + ms

RethrownAlways(probe) == probe.threw

\* what the catch clauses around the status queries let escape: nothing
Rethrown(probe) == FALSE

\* one probe of waitForChecks, after its try/catch
ProbeOutcomes == {[threw |-> p.threw, checks |-> Snapshot(p)] : p \in ProbeResults}

\* what `gh pr list --json ...` can yield: a failing command or a list
PrListResults ==
  {[threw |-> TRUE, list |-> <<>>]}
    \cup {[threw |-> FALSE, list |-> l] :
             l \in UNION {[1..k -> PRNumbers] : k \in 0..MaxPR}}

\* findVersionPackagesPR: the first listed PR, or null (0)
FindVersionPackagesPR(res) ==
  IF res.threw THEN 0
  ELSE IF Len(res.list) > 0 THEN res.list[1]
  ELSE 0

\* the poll has what it waits for: a non-empty snapshot of completed checks
ChecksSatisfied(checks) ==
  Len(checks) > 0 /\ \A i \in 1..Len(checks) : checks[i].status = "completed"

\* an escaping probe failure ends the call
Raise(g, probe) ==
  [g EXCEPT !.at = "thrown", !.probes = Tick(@), !.threw = probe.threw,
            !.error = NewError("Command failed")]

\* the throw that follows the loop
ThrowTimeout(g) ==
  [g EXCEPT !.at = "thrown", !.error = NewError(TimeoutMessage(g.fn))]

\* if (checks.length === 0) { ...sleep; continue }
NoChecksFoundNever(checks) == FALSE

NoChecksFound(checks) == Len(checks) = 0

\* one pass through the loop body of waitForChecks, up to the return or the
\* sleep
PollChecks ==
  /\ gh.fn = "waitForChecks" /\ gh.at = "loop"
  /\ IF ~WithinTimeout(gh)
       THEN gh' = ThrowTimeout(gh)
       ELSE \E probe \in ProbeOutcomes :
              LET checks == probe.checks
                  seen == [gh EXCEPT !.probes = Tick(@),
                                     !.threw = probe.threw,
                                     !.last = checks,
                                     !.observed = @ \/ Len(checks) > 0,
                                     !.unsatisfied =
                                        IF ChecksSatisfied(checks) THEN @ ELSE Tick(@)]
              IN IF Rethrown(probe) THEN gh' = Raise(gh, probe)
                 ELSE IF NoChecksFound(checks)
                   THEN gh' = [seen EXCEPT !.at = "sleep"]
                 ELSE IF AllCompleted(checks)
                   THEN gh' = [seen EXCEPT !.at = "returned",
                                           !.result = [success |-> AllSuccess(checks),
                                                       checks |-> checks]]
                 ELSE gh' = [seen EXCEPT !.at = "sleep"]
  /\ UNCHANGED <<runVars, ai, pure, cli>>

\* one pass through the loop body of waitForVersionPackagesPR
PollVersionPR ==
  /\ gh.fn = "waitForVersionPackagesPR" /\ gh.at = "loop"
  /\ IF ~WithinTimeout(gh)
       THEN gh' = ThrowTimeout(gh)
       ELSE \E res \in PrListResults :
              LET found == FindVersionPackagesPR(res)
                  seen == [gh EXCEPT !.probes = Tick(@),
                                     !.threw = res.threw,
                                     !.last = IF found = 0 THEN <<>> ELSE <<found>>,
                                     !.unsatisfied = IF found # 0 THEN @ ELSE Tick(@)]
              IN IF Rethrown(res) THEN gh' = Raise(gh, res)
                 ELSE IF found # 0
                   THEN gh' = [seen EXCEPT !.at = "returned", !.result = found]
                 ELSE gh' = [seen EXCEPT !.at = "sleep"]
  /\ UNCHANGED <<runVars, ai, pure, cli>>

\* `await this.sleep(pollIntervalMs)` and the jump back to the loop test;
\* the locals of the pass (the probe's value) go out of scope
PollSleep ==
  /\ gh.fn \in PollFns /\ gh.at = "sleep"
  /\ gh' = [gh EXCEPT !.at = "loop", !.sleeps = Tick(@),
                      !.now = Sleep(@, gh.pollIntervalMs),
                      !.last = <<>>, !.threw = FALSE]
  /\ UNCHANGED <<runVars, ai, pure, cli>>

\* findVersionPackagesPR() called once
FindVersionPR ==
  /\ gh.fn = "findVersionPackagesPR" /\ gh.at = "call"
  /\ \E res \in PrListResults :
       gh' = IF Rethrown(res) THEN Raise(gh, res)
             ELSE [gh EXCEPT !.at = "returned", !.probes = Tick(@),
                             !.threw = res.threw,
                             !.result = FindVersionPackagesPR(res)]
  /\ UNCHANGED <<runVars, ai, pure, cli>>

\* ------------------------------------------------------- getCheckRuns
\* a field the JSON object does not have
Absent == "<absent>"
\* the JSON value null; also the conclusion null of a CheckRun
Null == "null"

\* status and conclusion tokens the structured output can hold
StatusTokens ==
  {"COMPLETED", "IN_PROGRESS", "PENDING", "QUEUED", "WAITING",
   "completed", "in_progress", "queued", "", Absent, Null}

ConclusionTokens ==
  {"SUCCESS", "FAILURE", "NEUTRAL", "CANCELLED", "SKIPPED", "TIMED_OUT",
   "ACTION_REQUIRED", "STALE",
   "success", "failure", "neutral", "cancelled", "skipped", "timed_out",
   "action_required", "", Absent, Null}

\* String.prototype.toUpperCase on the tokens above
ToUpperCase(t) ==
  CASE t = "completed" -> "COMPLETED"
    [] t = "in_progress" -> "IN_PROGRESS"
    [] t = "queued" -> "QUEUED"
    [] t = "success" -> "SUCCESS"
    [] t = "failure" -> "FAILURE"
    [] t = "neutral" -> "NEUTRAL"
    [] t = "cancelled" -> "CANCELLED"
    [] t = "skipped" -> "SKIPPED"
    [] t = "timed_out" -> "TIMED_OUT"
    [] t = "action_required" -> "ACTION_REQUIRED"
    [] OTHER -> t

\* switch (status?.toUpperCase())
MapStatusPendingQueued(status) ==
  LET u == IF status \in {Absent, Null} THEN Absent ELSE ToUpperCase(status) IN
  IF u = "COMPLETED" THEN "completed"
  ELSE IF u = "IN_PROGRESS" THEN "in_progress"
  ELSE "queued"

MapStatus(status) ==
  LET u == IF status \in {Absent, Null} THEN Absent ELSE ToUpperCase(status) IN
  IF u = "COMPLETED" THEN "completed"
  ELSE IF u \in {"IN_PROGRESS", "PENDING"} THEN "in_progress"
  ELSE "queued"

\* switch (conclusion?.toUpperCase()); "null" stands for null
MapConclusion(conclusion) ==
  LET u == IF conclusion \in {Absent, Null} THEN Absent ELSE ToUpperCase(conclusion) IN
  IF u = "SUCCESS" THEN "success"
  ELSE IF u = "FAILURE" THEN "failure"
  ELSE IF u = "NEUTRAL" THEN "neutral"
  ELSE IF u = "CANCELLED" THEN "cancelled"
  ELSE IF u = "SKIPPED" THEN "skipped"
  ELSE IF u = "TIMED_OUT" THEN "timed_out"
  ELSE "null"

\* one entry of statusCheckRollup
RawChecks ==
  [name : {"build"}, workflowName : {""},
   status : StatusTokens, conclusion : ConclusionTokens]

\* what execJson can yield: a failing command, an object without
\* statusCheckRollup, or an object with it
RollupResults ==
  {[threw |-> TRUE, has |-> FALSE, rollup |-> <<>>],
   [threw |-> FALSE, has |-> FALSE, rollup |-> <<>>]}
    \cup {[threw |-> FALSE, has |-> TRUE, rollup |-> l] :
             l \in UNION {[1..k -> RawChecks] : k \in 0..MaxRollup}}

\* the body of getCheckRuns
GetCheckRuns(res) ==
  IF res.threw \/ ~res.has THEN <<>>
  ELSE [i \in 1..Len(res.rollup) |->
          [name |-> IF res.rollup[i].workflowName # ""
                      THEN res.rollup[i].workflowName
                      ELSE res.rollup[i].name,
           status |-> MapStatus(res.rollup[i].status),
           conclusion |-> MapConclusion(res.rollup[i].conclusion)]]

\* getCheckRuns(prNumber) called once
GetCheckRunsCall ==
  /\ gh.fn = "getCheckRuns" /\ gh.at = "call"
  /\ \E res \in RollupResults :
       gh' = IF Rethrown(res) THEN Raise(gh, res)
             ELSE [gh EXCEPT !.at = "returned", !.probes = Tick(@),
                             !.threw = res.threw,
                             !.result = GetCheckRuns(res)]
  /\ UNCHANGED <<runVars, ai, pure, cli>>

NextGitHub ==
  \/ PollChecks
  \/ PollVersionPR
  \/ PollSleep
  \/ FindVersionPR
  \/ GetCheckRunsCall

SpecGitHub == InitGitHub /\ [][NextGitHub]_vars

\* a pending loop pass or timer of a poll always runs: the event loop is not
\* starved
FairSpecGitHub ==
  SpecGitHub /\ WF_vars(PollChecks) /\ WF_vars(PollVersionPR) /\ WF_vars(PollSleep)

\* the call has ended
GhDone == gh.at \in {"returned", "thrown"}

\* ========================================= Note Generator calls on their own
\* suggestReleaseType(context) and generateChangesetMessage(name, type,
\* context) called with a DiffContext
AiFns == {"suggestReleaseType", "generateChangesetMessage"}

\* the DiffContexts runRelease builds
AiContexts ==
  {[previousVersion |-> v, commits |-> n, diff |-> d] :
     v \in {"unknown", "v1"}, n \in 0..MaxCommits, d \in {"", "tagdiff"}}

AiCalls ==
  {[AiIdle EXCEPT !.fn = "suggestReleaseType", !.at = "call", !.context = c] :
     c \in AiContexts}
    \cup {[AiIdle EXCEPT !.fn = "generateChangesetMessage", !.at = "call",
                         !.context = c, !.releaseType = t] :
             c \in AiContexts, t \in ReleaseTypes}

InitAI ==
  /\ RunInit({DefaultOptions})
  /\ gh = GhIdle
  /\ ai \in AiCalls
  /\ pure = PureIdle
  /\ cli = CliIdle

\* the text of the first text block of a response
ResponseTexts ==
  {"patch", "minor", "major", "MAJOR", "Minor", " minor\n", "patch.",
   "minor release", "invalid response", "", " Adds a feature.\n"}

\* what client.messages.create can settle with: a rejection, a response
\* without a text block, a response with one
GeneratorResponses ==
  {[kind |-> "rejected", text |-> ""], [kind |-> "noText", text |-> ""]}
    \cup {[kind |-> "text", text |-> t] : t \in ResponseTexts}

\* String.prototype.trim on the texts above
Trim(t) ==
  CASE t = " minor\n" -> "minor"
    [] t = " Adds a feature.\n" -> "Adds a feature."
    [] OTHER -> t

SuggestOutcomeUncaught(r) ==
  IF r.kind = "rejected" THEN [threw |-> TRUE, value |-> None]
  ELSE IF r.kind = "noText" THEN [threw |-> FALSE, value |-> "patch"]
  ELSE LET suggestion == ToLower(Trim(r.text)) IN
       [threw |-> FALSE,
        value |-> IF suggestion \in {"major", "minor", "patch"}
                    THEN suggestion ELSE "patch"]

\* the try / catch of suggestReleaseType, once the request settled
SuggestOutcome(r) ==
  IF r.kind = "rejected" THEN [threw |-> FALSE, value |-> "patch"]
  ELSE IF r.kind = "noText" THEN [threw |-> FALSE, value |-> "patch"]
  ELSE LET suggestion == ToLower(Trim(r.text)) IN
       [threw |-> FALSE,
        value |-> IF suggestion \in {"major", "minor", "patch"}
                    THEN suggestion ELSE "patch"]

\* the try / catch of generateChangesetMessage: every failure is logged and
\* thrown again
GenerateOutcome(r) ==
  IF r.kind \in {"rejected", "noText"} THEN [threw |-> TRUE, value |-> None]
  ELSE [threw |-> FALSE, value |-> Trim(r.text)]

\* the call has settled
Settle(a, r, outcome) ==
  [a EXCEPT !.at = IF outcome.threw THEN "thrown" ELSE "returned",
            !.response = r, !.threw = outcome.threw, !.result = outcome.value]

\* suggestReleaseType up to its await: the empty-commit return, or the request
SuggestRequest ==
  /\ ai.fn = "suggestReleaseType" /\ ai.at = "call"
  /\ ai' = IF ai.context.commits = 0
             THEN [ai EXCEPT !.at = "returned", !.result = "patch"]
             ELSE [ai EXCEPT !.at = "awaiting", !.calls = @ + 1]
  /\ UNCHANGED <<runVars, gh, pure, cli>>

\* suggestReleaseType after its await
SuggestResponse ==
  /\ ai.fn = "suggestReleaseType" /\ ai.at = "awaiting"
  /\ \E r \in GeneratorResponses : ai' = Settle(ai, r, SuggestOutcome(r))
  /\ UNCHANGED <<runVars, gh, pure, cli>>

\* generateChangesetMessage up to its await
GenerateRequest ==
  /\ ai.fn = "generateChangesetMessage" /\ ai.at = "call"
  /\ ai' = [ai EXCEPT !.at = "awaiting", !.calls = @ + 1]
  /\ UNCHANGED <<runVars, gh, pure, cli>>

\* generateChangesetMessage after its await
GenerateResponse ==
  /\ ai.fn = "generateChangesetMessage" /\ ai.at = "awaiting"
  /\ \E r \in GeneratorResponses : ai' = Settle(ai, r, GenerateOutcome(r))
  /\ UNCHANGED <<runVars, gh, pure, cli>>

NextAI ==
  \/ SuggestRequest
  \/ SuggestResponse
  \/ GenerateRequest
  \/ GenerateResponse

SpecAI == InitAI /\ [][NextAI]_vars

\* ============================================ functions called on their own
\* characters of a diff
MaxDiffLen == 3
\* largest maxLength getFullDiffSinceTag is called with
MaxLength == 2

PureFns ==
  {"mapCheck", "parseChecks", "getFullDiffSinceTag", "getPullRequest",
   "addRepoConfig", "getRepoConfig", "listRepos"}

\* names and configurations of stored repositories
RepoNames == {"repo-a", "repo-b"}
RepoConfigs ==
  {[owner |-> "test-org", repo |-> "test-repo", baseBranch |-> b] :
     b \in {"main", "canary"}}

\* what CONFIG_FILE can hold: nothing (no file), text that is not JSON, the
\* JSON text `null`, or a JSON object, written here by its fields
ConfigFiles ==
  {[kind |-> k, value |-> <<>>] : k \in {"missing", "invalid", "null", "object"}}
    \cup {[kind |-> "object", value |-> [repos |-> r]] :
             r \in UNION {[ns -> RepoConfigs] : ns \in SUBSET RepoNames}}

\* lines of the tabular `gh pr checks` output, split at tabs
TabularLines ==
  ProbeLines
    \cup {<<"build", w>> : w \in {"success", "failure", "in_progress", "skipped",
                                  "PASS", " pass ", "queued"}}
    \cup {<<" ", "pass">>, <<"build ", "pass", "1m", "http://x">>}

\* '\n\n... (diff truncated)'
TruncationMarker ==
  <<"\n", "\n", ".", ".", ".", " ", "(", "d", "i", "f", "f", " ",
    "t", "r", "u", "n", "c", "a", "t", "e", "d", ")">>

\* the diffs git.diff can return: every short one, and long ones that
\* exceed maxLength by about the length of the marker
DiffChars == {"+", "-"}
Diffs ==
  UNION {[1..k -> DiffChars] : k \in 0..MaxDiffLen}
    \cup {[i \in 1..(Len(TruncationMarker) + k) |-> "x"] : k \in 1..MaxLength}

\* the calls: the function and its argument
PureCalls ==
  {[PureIdle EXCEPT !.fn = "mapCheck", !.at = "call",
                    !.arg = [status |-> st, conclusion |-> c]] :
     st \in StatusTokens, c \in ConclusionTokens}
    \cup {[PureIdle EXCEPT !.fn = "parseChecks", !.at = "call", !.arg = o] :
             o \in UNION {[1..k -> TabularLines] : k \in 0..MaxChecks}}
    \cup {[PureIdle EXCEPT !.fn = "getFullDiffSinceTag", !.at = "call",
                           !.arg = [diff |-> d, maxLength |-> m, rejects |-> r]] :
             d \in Diffs, m \in 0..MaxLength, r \in BOOLEAN}
    \cup {[PureIdle EXCEPT !.fn = "getPullRequest", !.at = "call",
                           !.arg = [state |-> st, mergeable |-> mb, mergedAt |-> ma,
                                    rejects |-> r]] :
             st \in {"OPEN", "CLOSED", "MERGED"},
             mb \in {"MERGEABLE", "CONFLICTING", "UNKNOWN"},
             ma \in {Absent, Null, "2024-01-01T00:00:00Z"}, r \in BOOLEAN}
    \cup {[PureIdle EXCEPT !.fn = "addRepoConfig", !.at = "call",
                           !.arg = [file |-> f, name |-> n, config |-> c]] :
             f \in ConfigFiles, n \in RepoNames, c \in RepoConfigs}
    \cup {[PureIdle EXCEPT !.fn = "getRepoConfig", !.at = "call",
                           !.arg = [file |-> f, name |-> n]] :
             f \in ConfigFiles, n \in RepoNames}
    \cup {[PureIdle EXCEPT !.fn = "listRepos", !.at = "call", !.arg = [file |-> f]] :
             f \in ConfigFiles}

InitPure ==
  /\ RunInit({DefaultOptions})
  /\ gh = GhIdle
  /\ ai = AiIdle
  /\ pure \in PureCalls
  /\ cli = CliIdle

\* the callback of statusCheckRollup.map in getCheckRuns
MapCheck(check) ==
  [status |-> MapStatus(check.status), conclusion |-> MapConclusion(check.conclusion)]

MapCheckCall ==
  /\ pure.fn = "mapCheck" /\ pure.at = "call"
  /\ pure' = [pure EXCEPT !.at = "returned", !.out = MapCheck(pure.arg)]
  /\ UNCHANGED <<runVars, gh, ai, cli>>

\* the parsing loop of waitForChecks on one output
ParseChecksCall ==
  /\ pure.fn = "parseChecks" /\ pure.at = "call"
  /\ pure' = [pure EXCEPT !.at = "returned", !.out = ParseChecks(pure.arg)]
  /\ UNCHANGED <<runVars, gh, ai, cli>>

\* String.prototype.slice(0, end) for 0 <= end
Slice(str, end) == SubSeq(str, 1, IF end < Len(str) THEN end ELSE Len(str))

\* the body of getFullDiffSinceTag after `await this.git.diff(...)`
GetFullDiffSinceTagSilent(diff, maxLength) ==
  IF Len(diff) > maxLength THEN Slice(diff, maxLength) ELSE diff

GetFullDiffSinceTag(diff, maxLength) ==
  IF Len(diff) > maxLength THEN Slice(diff, maxLength) \o TruncationMarker
  ELSE diff

\* getFullDiffSinceTag(tag, maxLength): a rejecting git.diff rejects the call
GetFullDiffSinceTagCall ==
  /\ pure.fn = "getFullDiffSinceTag" /\ pure.at = "call"
  /\ pure' = IF pure.arg.rejects THEN [pure EXCEPT !.at = "thrown"]
             ELSE [pure EXCEPT !.at = "returned",
                               !.out = GetFullDiffSinceTag(pure.arg.diff,
                                                           pure.arg.maxLength)]
  /\ UNCHANGED <<runVars, gh, ai, cli>>

\* the object getPullRequest builds from the parsed `gh pr view` response;
\* a field the response lacks reads as undefined, and undefined !== null
GetPullRequest(result) ==
  [state |-> result.state,
   mergeable |-> result.mergeable = "MERGEABLE",
   merged |-> result.mergedAt # Null]

\* getPullRequest(prNumber): a failing `gh pr view` rejects the call
GetPullRequestCall ==
  /\ pure.fn = "getPullRequest" /\ pure.at = "call"
  /\ pure' = IF pure.arg.rejects THEN [pure EXCEPT !.at = "thrown"]
             ELSE [pure EXCEPT !.at = "returned", !.out = GetPullRequest(pure.arg)]
  /\ UNCHANGED <<runVars, gh, ai, cli>>

\* loadStoredConfig(): the parsed file; { repos: {} } when the file does not
\* exist or JSON.parse throws
LoadStoredConfig(file) ==
  IF file.kind \in {"missing", "invalid"}
  THEN [kind |-> "object", value |-> [repos |-> <<>>]]
  ELSE file

\* `stored.repos` can be read: stored is an object that has the field
HasRepos(stored) == stored.kind = "object" /\ "repos" \in DOMAIN stored.value

\* getRepoConfig(repoName) on a given file; REPO_CONFIGS is empty. The value
\* returned is <<config>>, or <<>> for null; reading a property of undefined
\* or of null throws a TypeError
GetRepoConfig(file, repoName) ==
  LET stored == LoadStoredConfig(file) IN
  IF ~HasRepos(stored) THEN [at |-> "thrown", out |-> <<>>]
  ELSE IF repoName \in DOMAIN stored.value.repos
       THEN [at |-> "returned", out |-> <<stored.value.repos[repoName]>>]
       ELSE [at |-> "returned", out |-> <<>>]

\* addRepoConfig(name, config) on a given file: the file saveConfig writes
AddRepoConfig(file, name, config) ==
  LET stored == LoadStoredConfig(file) IN
  IF ~HasRepos(stored) THEN [at |-> "thrown", out |-> file]
  ELSE [at |-> "returned",
        out |-> [kind |-> "object",
                 value |-> [stored.value EXCEPT
                              !.repos = [n \in DOMAIN @ \cup {name} |->
                                           IF n = name THEN config ELSE @[n]]]]]

\* listRepos() on a given file, as the set of the names listed
ListRepos(file) ==
  LET stored == LoadStoredConfig(file) IN
  IF ~HasRepos(stored) THEN [at |-> "thrown", out |-> {}]
  ELSE [at |-> "returned", out |-> DOMAIN stored.value.repos]

AddRepoConfigCall ==
  /\ pure.fn = "addRepoConfig" /\ pure.at = "call"
  /\ LET r == AddRepoConfig(pure.arg.file, pure.arg.name, pure.arg.config)
     IN pure' = [pure EXCEPT !.at = r.at, !.out = r.out]
  /\ UNCHANGED <<runVars, gh, ai, cli>>

GetRepoConfigCall ==
  /\ pure.fn = "getRepoConfig" /\ pure.at = "call"
  /\ LET r == GetRepoConfig(pure.arg.file, pure.arg.name)
     IN pure' = [pure EXCEPT !.at = r.at, !.out = r.out]
  /\ UNCHANGED <<runVars, gh, ai, cli>>

ListReposCall ==
  /\ pure.fn = "listRepos" /\ pure.at = "call"
  /\ LET r == ListRepos(pure.arg.file)
     IN pure' = [pure EXCEPT !.at = r.at, !.out = r.out]
  /\ UNCHANGED <<runVars, gh, ai, cli>>

NextPure ==
  \/ MapCheckCall
  \/ ParseChecksCall
  \/ GetFullDiffSinceTagCall
  \/ GetPullRequestCall
  \/ AddRepoConfigCall
  \/ GetRepoConfigCall
  \/ ListReposCall

SpecPure == InitPure /\ [][NextPure]_vars

\* ===================================================== commands on their own
\* number of values randomBytes(4) is drawn from
MaxSuffix == 2

\* path.join(getTempDir(), `${config.repo}-${randomBytes(4).toString('hex')}`)
WorkDirs(repo) == {[repo |-> repo, suffix |-> x] : x \in 1..MaxSuffix}

\* the invocations: the command, its flags, and the WorkArea of a run that
\* executes at the same time as an analyze command (NoDir: there is none)
CliCalls ==
  {[CliIdle EXCEPT !.cmd = "release", !.at = "config", !.json = j] : j \in BOOLEAN}
    \cup {[CliIdle EXCEPT !.cmd = "merge", !.at = "config", !.json = j, !.wait = w] :
             j \in BOOLEAN, w \in BOOLEAN}
    \cup {[CliIdle EXCEPT !.cmd = "analyze", !.at = "config", !.json = j,
                           !.other = o, !.dirs = {o} \ {NoDir}] :
             j \in BOOLEAN,
             o \in {NoDir} \cup WorkDirs("test-repo") \cup WorkDirs("other-repo")}

InitCli ==
  /\ RunInit({DefaultOptions})
  /\ gh = GhIdle
  /\ ai = AiIdle
  /\ pure = PureIdle
  /\ cli \in CliCalls

\* if (jsonMode) outputJson(obj) else logger.<level>(...)
Report(c, obj) == IF c.json THEN [c EXCEPT !.emitted = Append(@, obj)] ELSE c

\* process.exit(code), or the action returning (code 0)
ExitWith(c, code) == [c EXCEPT !.at = "exit", !.exitCode = code]

\* a failure reported by a command: the not-found branch and the catch block
Fail(c, message) == ExitWith(Report(c, [success |-> FALSE, error |-> message]), 1)

\* the messages of a failing repository lookup: null, or a thrown error
LookupFailures == {"Repository not found", "Cannot read properties"}

\* ---- analyze <repo>
\* getRepoConfig and `new GitOperations(config)`, which draws the suffix
AnalyzeStart ==
  /\ cli.cmd = "analyze" /\ cli.at = "config"
  /\ \/ \E d \in WorkDirs("test-repo") : cli' = [cli EXCEPT !.at = "clone", !.workDir = d]
     \/ \E m \in LookupFailures : cli' = Fail(cli, m)
  /\ UNCHANGED <<runVars, gh, ai, pure>>

\* git.clone(): removes the directory at workDir if there is one, then clones
AnalyzeClone ==
  /\ cli.cmd = "analyze" /\ cli.at = "clone"
  /\ LET removed == {cli.workDir} \cap cli.dirs IN
     \/ cli' = [cli EXCEPT !.at = "read", !.cloned = TRUE,
                           !.dirs = @ \cup {cli.workDir},
                           !.touched = @ \cup {cli.workDir}]
     \/ cli' = Fail([cli EXCEPT !.dirs = @ \ removed, !.touched = @ \cup removed],
                     "clone failed")
  /\ UNCHANGED <<runVars, gh, ai, pure>>

\* getPackageName, getPackageVersion, getLatestVersionTag and the commits
\* and diff summary
AnalyzeRead ==
  /\ cli.cmd = "analyze" /\ cli.at = "read"
  /\ \/ cli' = [cli EXCEPT !.at = "cleanup"]
     \/ \E m \in {"package.json missing", "git tag failed", "git diff failed"} :
          cli' = Fail(cli, m)
  /\ UNCHANGED <<runVars, gh, ai, pure>>

\* git.cleanup() and the report of the analysis
AnalyzeCleanup ==
  /\ cli.cmd = "analyze" /\ cli.at = "cleanup"
  /\ LET removed == {cli.workDir} \cap cli.dirs IN
     \/ cli' = ExitWith(Report([cli EXCEPT !.dirs = @ \ removed,
                                           !.touched = @ \cup removed],
                               [success |-> TRUE, error |-> ""]), 0)
     \/ removed # {} /\ cli' = Fail(cli, "rm failed")
  /\ UNCHANGED <<runVars, gh, ai, pure>>

\* ---- merge <repo> <pr>
MergeStart ==
  /\ cli.cmd = "merge" /\ cli.at = "config"
  /\ \/ cli' = [cli EXCEPT !.at = IF cli.wait THEN "wait" ELSE "merge"]
     \/ \E m \in LookupFailures : cli' = Fail(cli, m)
  /\ UNCHANGED <<runVars, gh, ai, pure>>

\* `if (!success)` is not taken
ChecksPassedAlways(result) == TRUE

ChecksPassed(result) == result.success

\* `await github.waitForChecks(prNum)` under --wait
MergeWaitForChecks ==
  /\ cli.cmd = "merge" /\ cli.at = "wait"
  /\ \/ \E r \in [called : {TRUE}, threw : {FALSE}, success : BOOLEAN] :
          cli' = IF ChecksPassed(r)
                 THEN [cli EXCEPT !.at = "merge", !.checks = r]
                 ELSE Fail([cli EXCEPT !.checks = r], "CI checks failed")
     \/ cli' = Fail([cli EXCEPT !.checks = [called |-> TRUE, threw |-> TRUE,
                                             success |-> FALSE]],
                     "Timeout waiting for checks to complete")
  /\ UNCHANGED <<runVars, gh, ai, pure>>

\* `await github.mergePullRequest(prNum, method)` and the report
MergePullRequest ==
  /\ cli.cmd = "merge" /\ cli.at = "merge"
  /\ LET called == [cli EXCEPT !.mergeCalls = @ + 1] IN
     \/ cli' = ExitWith(Report(called, [success |-> TRUE, error |-> ""]), 0)
     \/ cli' = Fail(called, "gh pr merge failed")
  /\ UNCHANGED <<runVars, gh, ai, pure>>

\* ---- the main release command, given a repository name
ReleaseStart ==
  /\ cli.cmd = "release" /\ cli.at = "config"
  /\ \/ cli' = [cli EXCEPT !.at = "run"]
     \/ \E m \in LookupFailures : cli' = Fail(cli, m)
  /\ UNCHANGED <<runVars, gh, ai, pure>>

\* `await runRelease(config, options)`: runRelease returns, or ends the
\* process itself with process.exit(0) or process.exit(1), or throws before
\* its try block; it never calls outputJson
ReleaseRun ==
  /\ cli.cmd = "release" /\ cli.at = "run"
  /\ \/ \E code \in {0, 1} : cli' = ExitWith(cli, code)
     \/ cli' = Fail(cli, "randomBytes failed")
  /\ UNCHANGED <<runVars, gh, ai, pure>>

NextCli ==
  \/ AnalyzeStart
  \/ AnalyzeClone
  \/ AnalyzeRead
  \/ AnalyzeCleanup
  \/ MergeStart
  \/ MergeWaitForChecks
  \/ MergePullRequest
  \/ ReleaseStart
  \/ ReleaseRun

SpecCli == InitCli /\ [][NextCli]_vars

\* ================================================================= claims
IsPrefix(s, t) == Len(s) <= Len(t) /\ \A i \in 1..Len(s) : s[i] = t[i]

\* C1: the merge of the changeset PR is issued only after waitForChecks on
\* that PR returned success = true; once waitForChecks returned success =
\* false for it, no merge of any PR is issued and the run ends with a
\* non-zero exit code.
C1_ChangesetMergeGated ==
  /\ pr \in mergeIssued => pr \in checksOk /\ pr \notin checksBad
  /\ pr \in checksBad =>
       /\ mergeIssued = {}
       /\ pc \in {"catch", "exit"}
       /\ Terminated => exitCode # 0

C1_Witness == pr \in merged /\ pr \in checksOk /\ pc = "waitVersionPR"

\* C2: the merge of the version PR is issued only after waitForChecks on the
\* version PR returned success = true; once it returned success = false the
\* version PR is never merged and the run ends with exit code 1.
C2_VersionMergeGated ==
  /\ versionPr \in mergeIssued => versionPr \in checksOk /\ versionPr \notin checksBad
  /\ versionPr \in checksBad =>
       /\ versionPr \notin mergeIssued
       /\ pc \in {"catch", "exit"}
       /\ Terminated => exitCode = 1

C2_Witness ==
  Terminated /\ versionPr \in checksBad /\ pr \in merged /\ exitCode = 1

\* C3: whenever the run has ended, git.cleanup() was invoked, and if the
\* last removal succeeded the WorkArea does not exist.
C3_CleanupOnEveryPath ==
  Terminated =>
    /\ cleanupCalls >= 1
    /\ lastCleanup = "ok" => ~workDirExists

C3_Witness ==
  Terminated /\ stopped = "decline" /\ "clone" \in Elems(completed)
    /\ lastCleanup = "ok" /\ ~workDirExists

\* C4: a failing WorkArea removal never changes the outcome: a run whose path
\* ended in full success or an operator pause exits with 0 whether or not the
\* removal threw, and a run that hit a fatal error exits with 1 and reports
\* that error.
C4_CleanupFailureKeepsOutcome ==
  Terminated =>
    /\ pathOutcome \in {"success", "paused"} => exitCode = 0
    /\ pathOutcome = "error" => exitCode = 1 /\ reported = thrown

\* C5: the exit code is 0 exactly when the run ended in full success (version
\* PR merged) or in an operator-chosen pause or cancel, and 1 otherwise.
C5_ExitCodes ==
  Terminated =>
    /\ exitCode = 0 <=> (versionPr \in merged \/ stopped # None)
    /\ exitCode \in {0, 1}

\* C6: after the operator declines at a confirmation point the run ends as a
\* paused success (exit code 0) with cleanup invoked, and no workflow step
\* (push, PR creation, merge) is issued after the decline.
C6_DeclinePauses ==
  /\ [](Terminated /\ stopped = "decline" =>
          exitCode = 0 /\ pathOutcome = "paused" /\ cleanupCalls >= 1)
  /\ [][stopped = "decline" =>
          issued' = issued /\ mergeIssued' = mergeIssued]_vars

\* C7: after a prompt is cancelled no later workflow state is executed,
\* cleanup is invoked and the process ends with exit code 0.
C7_CancelShortCircuits ==
  /\ [](Terminated /\ stopped = "cancel" => exitCode = 0 /\ cleanupCalls >= 1)
  /\ [][stopped = "cancel" => issued' = issued /\ prompts' = prompts]_vars

\* C8: with skipConfirmations and an explicit release type no interactive
\* prompt (select, confirm, text) is ever invoked, with or without a message.
C8_NoPromptWhenAutomated ==
  opts.skipConfirmations /\ opts.type # None => prompts = <<>>

\* the workflow order the steps are required to follow
StepOrder == <<"clone", "diff", "type", "message", "branch", "changeset",
               "commit", "push", "createPR", "waitChecks", "merge",
               "waitVersionPR", "waitVersionChecks", "mergeVersion">>

InStepOrder(x) == x \in Elems(StepOrder)

\* C9: the steps are issued in workflow order, each at most once and only
\* after all earlier steps completed; version PR discovery and the version PR
\* merge happen only after the changeset PR was merged.
C9_StepOrder ==
  LET is == SelectSeq(issued, InStepOrder)
      cs == SelectSeq(completed, InStepOrder)
  IN /\ IsPrefix(is, StepOrder)
     /\ IsPrefix(cs, StepOrder)
     /\ Len(cs) <= Len(is)
     /\ Len(is) <= Len(cs) + 1
     /\ "waitVersionPR" \in Elems(issued) => pr \in merged
     /\ mergeIssued \ {pr} # {} => pr \in merged

C9_Witness ==
  Terminated /\ versionPr \in merged /\ Len(SelectSeq(completed, InStepOrder)) = Len(StepOrder)

\* the remote- or repository-mutating operations of runRelease
MutatingSteps == {"branch", "commit", "push", "createPR", "merge", "mergeVersion"}

\* C10: a mutating operation that failed (issued, not completed) is the last
\* step of the run: nothing is issued after it, it is not issued again, and
\* the run ends with exit code 1 after cleanup was invoked.
C10_MutationFailureIsFatal ==
  \A m \in MutatingSteps :
    (m \in Elems(issued) /\ m \notin Elems(completed)) =>
      /\ issued[Len(issued)] = m
      /\ Cardinality({i \in 1..Len(issued) : issued[i] = m}) = 1
      /\ pc \in {"catch", "exit"}
      /\ thrown = m
      /\ Terminated => exitCode = 1 /\ cleanupCalls >= 1 /\ reported = m

C10_Witness ==
  Terminated /\ thrown = "merge" /\ reported = "merge" /\ exitCode = 1
    /\ versionPr = 0

ExplicitRelease == opts.type # None /\ opts.message

\* C17: with an explicit type and message the run makes no Note Generator
\* call and shows no prompt before the push confirmation (no select, no text
\* prompt at all), still builds the DiffContext (previousVersion "unknown" and
\* an empty diff when no tag exists) before the branch is created, and has
\* written exactly one changeset record, with the supplied type, once the
\* changeset step completed and whenever the push step is issued.
C17_ExplicitSkipsGenerator ==
  ExplicitRelease =>
    /\ aiCalls = 0
    /\ "select" \notin Elems(prompts) /\ "text" \notin Elems(prompts)
    /\ "changeset" \notin Elems(completed) => prompts = <<>>
    /\ "diff" \in Elems(completed) =>
         /\ diffContext # NoContext
         /\ latestTag = None =>
              diffContext.previousVersion = "unknown" /\ diffContext.diff = ""
    /\ "branch" \in Elems(issued) => "diff" \in Elems(completed)
    /\ Len(changesets) <= 1
    /\ "changeset" \in Elems(completed) =>
         changesets = <<[type |-> opts.type, message |-> "explicit"]>>
    /\ "push" \in Elems(issued) => Len(changesets) = 1

C17_Witness ==
  /\ ExplicitRelease /\ opts.type = "minor"
  /\ latestTag = None /\ diffContext.previousVersion = "unknown"
  /\ "push" \in Elems(completed)
  /\ changesets = <<[type |-> "minor", message |-> "explicit"]>>
  /\ aiCalls = 0

\* C19: a failing generateChangesetMessage never becomes the error of the
\* run; the step that follows it shows the manual text prompt and then either
\* continues at branch creation with the entered message (the run not ended,
\* nothing thrown) or is cancelled by the operator; the changeset written
\* afterwards carries the entered message.
C19_GeneratorFailureFallsBack ==
  /\ [](thrown # "message")
  /\ [](releaseMessage = "fallback" /\ "changeset" \in Elems(completed) =>
          changesets = <<[type |-> releaseType, message |-> "fallback"]>>)
  /\ [][pc = "messageFallback" /\ stopped = None =>
          /\ prompts' = Append(prompts, "text")
          /\ \/ /\ pc' = "branch"
                /\ releaseMessage' = "fallback"
                /\ exitCode' = -1
                /\ thrown' = None
             \/ stopped' = "cancel"]_vars

C19_Witness ==
  /\ releaseMessage = "fallback" /\ stopped = None /\ ~opts.message
  /\ "createPR" \in Elems(completed)
  /\ changesets = <<[type |-> releaseType, message |-> "fallback"]>>

\* C11: a failing status query never ends a poll: the pass that made it sees
\* an empty result and goes to sleep, the only error a poll ever throws is its
\* Timeout error (thrown when the loop test fails), and the single-shot
\* queries return the empty list (getCheckRuns) or null
\* (findVersionPackagesPR) when their command fails.
C11_QueryFailureIsNotFatal ==
  /\ [](gh.at = "thrown" =>
          /\ gh.fn \in PollFns
          /\ ~WithinTimeout(gh)
          /\ gh.error.message = TimeoutMessage(gh.fn))
  /\ [](gh.threw /\ gh.fn \in PollFns => gh.at # "returned" /\ gh.last = <<>>)
  /\ [](gh.threw /\ gh.at = "returned" =>
          /\ gh.fn = "getCheckRuns" => gh.result = <<>>
          /\ gh.fn = "findVersionPackagesPR" => gh.result = 0)
  /\ [][gh.fn \in PollFns /\ gh'.probes # gh.probes /\ gh'.threw =>
          gh'.at = "sleep"]_vars

C11_Witness ==
  /\ gh.fn = "waitForChecks" /\ gh.threw /\ gh.at = "sleep"
  /\ gh.sleeps >= 1 /\ gh.probes >= 2

\* C12: under a fair scheduler every poll ends; a poll that ends by throwing
\* has seen no satisfying probe value, its clock has reached timeoutMs and
\* the error is its Timeout error; the clock never passes timeoutMs by a full
\* interval or more.
C12_PollsTerminate ==
  /\ <>(gh.fn \in PollFns => GhDone)
  /\ [](gh.fn \in PollFns /\ gh.at = "thrown" =>
          /\ gh.now >= gh.timeoutMs
          /\ gh.unsatisfied = gh.probes
          /\ gh.error.message = TimeoutMessage(gh.fn))
  /\ [](gh.fn \in PollFns => gh.now < gh.timeoutMs + gh.pollIntervalMs)

C12_Witness ==
  /\ gh.fn = "waitForVersionPackagesPR" /\ gh.at = "thrown"
  /\ gh.probes >= 2 /\ gh.unsatisfied = gh.probes
  /\ gh.error.message = "Timeout waiting for Version Packages PR"

\* C13: the Timeout error of a poll in which some probe produced a non-empty
\* snapshot carries a value.
C13_TimeoutCarriesLastValue ==
  gh.at = "thrown" /\ gh.observed => gh.error.carries # {}

\* C14: a poll that returned has made exactly one satisfying probe, its last
\* one, returns that probe's value, and slept once after each earlier probe
\* and not after the last; while it has not returned no probe was
\* satisfying; after the return nothing happens.
C14_ReturnsFirstSatisfying ==
  /\ [](gh.fn \in PollFns =>
          /\ gh.at = "returned" =>
               /\ gh.unsatisfied = gh.probes - 1
               /\ gh.sleeps = gh.probes - 1
               /\ gh.fn = "waitForChecks" =>
                    gh.result.checks = gh.last /\ ChecksSatisfied(gh.last)
               /\ gh.fn = "waitForVersionPackagesPR" =>
                    gh.result # 0 /\ gh.last = <<gh.result>>
          /\ gh.at # "returned" => gh.unsatisfied = gh.probes)
  /\ [][gh.at = "returned" => gh' = gh]_vars

C14_Witness ==
  /\ gh.fn = "waitForChecks" /\ gh.at = "returned"
  /\ gh.probes = 3 /\ gh.sleeps = 2 /\ gh.unsatisfied = 2

\* every CheckRun of the snapshot has status completed
EveryCompleted(cs) == \A i \in 1..Len(cs) : cs[i].status = "completed"

\* the success flag is true exactly when every conclusion is success or
\* skipped, and false when a conclusion is failure or timed_out
SuccessFlagRule ==
  /\ gh.at = "returned" =>
       /\ gh.result.success <=>
            \A i \in 1..Len(gh.last) : gh.last[i].conclusion \in {"success", "skipped"}
       /\ (\E i \in 1..Len(gh.last) :
              gh.last[i].conclusion \in {"failure", "timed_out"}) => ~gh.result.success
  /\ \A c \in {"failure", "timed_out"} :
       ~AllSuccess(<<[conclusion |-> "success"], [conclusion |-> c]>>)

\* C15 as stated: after a probe waitForChecks has returned exactly when every
\* CheckRun of the latest snapshot is completed, and the success flag
\* follows the aggregate rule.
C15_SatisfiedWhenAllCompleted ==
  gh.fn = "waitForChecks" /\ gh.at \in {"sleep", "returned"} =>
    /\ gh.at = "returned" <=> EveryCompleted(gh.last)
    /\ SuccessFlagRule

\* C15 amended: after a probe waitForChecks has returned exactly when the
\* latest snapshot is non-empty and every CheckRun in it is completed, and
\* the success flag follows the aggregate rule.
C15_SatisfiedWhenNonEmptyAllCompleted ==
  gh.fn = "waitForChecks" /\ gh.at \in {"sleep", "returned"} =>
    /\ gh.at = "returned" <=> (Len(gh.last) > 0 /\ EveryCompleted(gh.last))
    /\ SuccessFlagRule

C15_Witness ==
  /\ gh.fn = "waitForChecks" /\ gh.at = "returned" /\ Len(gh.last) = 2
  /\ gh.last[1].conclusion = "success" /\ gh.last[2].conclusion = "failure"
  /\ ~gh.result.success

\* C20: every CheckRun returned by getCheckRuns or parsed by waitForChecks
\* that has status completed has a conclusion other than null.
C20_CompletedHasConclusion ==
  /\ gh.fn = "getCheckRuns" /\ gh.at = "returned" =>
       \A i \in 1..Len(gh.result) :
         gh.result[i].status = "completed" => gh.result[i].conclusion # "null"
  /\ gh.fn = "waitForChecks" =>
       \A i \in 1..Len(gh.last) :
         gh.last[i].status = "completed" => gh.last[i].conclusion # "null"

\* C18: suggestReleaseType never throws and returns patch, minor or major:
\* patch without any request for an empty commit list; otherwise after one
\* request, patch when the request was rejected or the response has no text
\* block, the word itself when the trimmed lower-cased text is exactly patch,
\* minor or major, and patch for every other text.
C18_SuggestIsTotal ==
  ai.fn = "suggestReleaseType" =>
    /\ ~ai.threw /\ ai.at # "thrown"
    /\ ai.context.commits = 0 => ai.calls = 0
    /\ ai.at = "returned" =>
         /\ ai.result \in ReleaseTypes
         /\ ai.context.commits = 0 => ai.result = "patch"
         /\ ai.context.commits # 0 =>
              /\ ai.calls = 1
              /\ ai.response.kind \in {"rejected", "noText"} => ai.result = "patch"
              /\ ai.response.kind = "text" =>
                   ai.result =
                     IF ai.response.text \in {"minor", "Minor", " minor\n"} THEN "minor"
                     ELSE IF ai.response.text \in {"major", "MAJOR"} THEN "major"
                     ELSE "patch"

C18_Witness ==
  /\ ai.fn = "suggestReleaseType" /\ ai.at = "returned" /\ ai.calls = 1
  /\ ai.response.kind = "rejected" /\ ai.result = "patch"

\* C21: every CheckRun produced by getCheckRuns or parsed by waitForChecks
\* whose status is queued or in_progress has conclusion null, whatever
\* conclusion token was reported alongside that status.
C21_PendingHasNoConclusion ==
  /\ gh.fn = "getCheckRuns" /\ gh.at = "returned" =>
       \A i \in 1..Len(gh.result) :
         gh.result[i].status \in {"queued", "in_progress"} =>
           gh.result[i].conclusion = "null"
  /\ gh.fn = "waitForChecks" =>
       \A i \in 1..Len(gh.last) :
         gh.last[i].status \in {"queued", "in_progress"} =>
           gh.last[i].conclusion = "null"

\* C25: when the output of `gh pr create` holds no /pull/<digits>,
\* createPullRequest raises an error without querying the PR details, and
\* the run treats it as fatal: the PR step does not complete, no check wait
\* and no merge is started, and the run ends with exit code 1 after cleanup.
C25_UnparsedPrNumberIsFatal ==
  (effects.created /\ ~effects.matched) =>
    /\ ~effects.viewed
    /\ "createPR" \in Elems(issued) /\ "createPR" \notin Elems(completed)
    /\ pr = 0
    /\ pc \in {"catch", "exit"} /\ thrown = "createPR"
    /\ Elems(issued) \cap {"waitChecks", "merge", "waitVersionPR",
                           "waitVersionChecks", "mergeVersion"} = {}
    /\ mergeIssued = {} /\ checksOk = {} /\ checksBad = {}
    /\ Terminated => exitCode = 1 /\ cleanupCalls >= 1 /\ reported = "createPR"

C25_Witness ==
  /\ Terminated /\ effects.created /\ ~effects.matched /\ ~effects.viewed
  /\ exitCode = 1 /\ cleanupCalls = 1 /\ reported = "createPR"

\* the history queries relative to a tag
TagQueries == {"getCommitsSinceTag", "getDiffSummary", "getFullDiffSinceTag"}

\* C26: when the tag lookup returned no tag, the run never issues a
\* tag-relative history query, and the DiffContext it builds has
\* previousVersion "unknown", an empty diff, no changed files, zero
\* insertions and deletions and at most 15 commits.
C26_NoTagFallback ==
  ("tag" \in Elems(completed) /\ latestTag = None) =>
    /\ effects.queries \cap TagQueries = {}
    /\ "diff" \in Elems(issued) => effects.queries = {"getRecentCommits"}
    /\ "diff" \in Elems(completed) =>
         /\ diffContext.previousVersion = "unknown"
         /\ diffContext.diff = ""
         /\ diffContext.filesChanged = <<>>
         /\ diffContext.insertions = 0 /\ diffContext.deletions = 0
         /\ diffContext.commits <= 15

C26_Witness ==
  /\ Terminated /\ "tag" \in Elems(completed) /\ latestTag = None
  /\ "diff" \in Elems(completed) /\ diffContext.commits = 15
  /\ effects.queries = {"getRecentCommits"}

DecisionKept ==
  "branch" \in Elems(issued) =>
    releaseType' = releaseType /\ releaseMessage' = releaseMessage

\* C30: the release decision does not change once it is built: the type in
\* the branch name, the type and message of the changeset record, the type
\* in the commit message and the type and message of the PR title and body
\* of a run are the release type and message of that run.
C30_DecisionIsStable ==
  /\ [](/\ effects.branchName # <<>> => effects.branchName[2] = releaseType
        /\ \A i \in 1..Len(effects.written) :
             /\ \A j \in 1..Len(effects.written[i].entries) :
                  effects.written[i].entries[j].type = releaseType
             /\ effects.written[i].message = releaseMessage
        /\ effects.commitMessage # <<>> => effects.commitMessage[2] = releaseType
        /\ effects.prTitle # <<>> =>
             /\ effects.prTitle[2] = releaseType
             /\ effects.prTitle[4] = [slice |-> <<0, 50>>, of |-> releaseMessage]
        /\ effects.prBody # <<>> =>
             effects.prBody[3] = releaseType /\ effects.prBody[5] = releaseMessage)
  /\ [][DecisionKept]_vars

C30_Witness ==
  /\ Terminated /\ versionPr \in merged /\ releaseType = "minor"
  /\ effects.branchName[2] = "minor" /\ effects.commitMessage[2] = "minor"
  /\ effects.prTitle[2] = "minor" /\ effects.prBody[3] = "minor"
  /\ Len(effects.written) = 1 /\ effects.written[1].entries[1].type = "minor"

\* C22 as stated: the structured mapping never fails and follows the table
\* on the token as reported: status COMPLETED gives completed, IN_PROGRESS
\* and PENDING give in_progress, every other or absent token gives queued;
\* conclusion SUCCESS, FAILURE, NEUTRAL, CANCELLED, SKIPPED, TIMED_OUT give
\* their lower-case values, every other, absent or empty token gives null.
C22_StructuredTable ==
  pure.fn = "mapCheck" =>
    /\ pure.at # "thrown"
    /\ pure.at = "returned" =>
         /\ pure.out.status =
              (IF pure.arg.status = "COMPLETED" THEN "completed"
               ELSE IF pure.arg.status \in {"IN_PROGRESS", "PENDING"} THEN "in_progress"
               ELSE "queued")
         /\ pure.out.conclusion =
              (CASE pure.arg.conclusion = "SUCCESS" -> "success"
                 [] pure.arg.conclusion = "FAILURE" -> "failure"
                 [] pure.arg.conclusion = "NEUTRAL" -> "neutral"
                 [] pure.arg.conclusion = "CANCELLED" -> "cancelled"
                 [] pure.arg.conclusion = "SKIPPED" -> "skipped"
                 [] pure.arg.conclusion = "TIMED_OUT" -> "timed_out"
                 [] OTHER -> "null")

\* C22 amended: the structured mapping never fails and follows the table on
\* the token without regard to letter case: COMPLETED or completed gives
\* completed, IN_PROGRESS, in_progress or PENDING gives in_progress, every
\* other or absent token gives queued; the six conclusion tokens in either
\* case give their lower-case values, every other, absent or empty token
\* gives null.
C22_StructuredTableAnyCase ==
  pure.fn = "mapCheck" =>
    /\ pure.at # "thrown"
    /\ pure.at = "returned" =>
         /\ pure.out.status =
              (IF pure.arg.status \in {"COMPLETED", "completed"} THEN "completed"
               ELSE IF pure.arg.status \in {"IN_PROGRESS", "in_progress", "PENDING"}
                 THEN "in_progress"
               ELSE "queued")
         /\ pure.out.conclusion =
              (CASE pure.arg.conclusion \in {"SUCCESS", "success"} -> "success"
                 [] pure.arg.conclusion \in {"FAILURE", "failure"} -> "failure"
                 [] pure.arg.conclusion \in {"NEUTRAL", "neutral"} -> "neutral"
                 [] pure.arg.conclusion \in {"CANCELLED", "cancelled"} -> "cancelled"
                 [] pure.arg.conclusion \in {"SKIPPED", "skipped"} -> "skipped"
                 [] pure.arg.conclusion \in {"TIMED_OUT", "timed_out"} -> "timed_out"
                 [] OTHER -> "null")

C22_Witness ==
  /\ pure.fn = "mapCheck" /\ pure.at = "returned"
  /\ pure.arg = [status |-> "PENDING", conclusion |-> "STALE"]
  /\ pure.out = [status |-> "in_progress", conclusion |-> "null"]

\* the reference table of the tabular mapping, on the status field as printed
TabularReference(field) ==
  IF field \in {"pass", "PASS", " pass ", "success"}
    THEN [status |-> "completed", conclusion |-> "success"]
  ELSE IF field \in {"fail", "FAIL", "failure"}
    THEN [status |-> "completed", conclusion |-> "failure"]
  ELSE IF field \in {"pending", "in_progress"}
    THEN [status |-> "in_progress", conclusion |-> "null"]
  ELSE IF field \in {"skipping", "skipped"}
    THEN [status |-> "completed", conclusion |-> "skipped"]
  ELSE [status |-> "queued", conclusion |-> "null"]

\* the lines that contribute a CheckRun: no banner phrase, a second
\* tab-separated field, a name that is not empty
ContributingLines(lines) ==
  SelectSeq(lines, LAMBDA l :
    /\ \A i \in 1..Len(l) : l[i] \notin BannerPhrases
    /\ Len(l) > 1
    /\ l[1] \notin {"", " "})

\* C23: the tabular mapping of waitForChecks yields, in order, one CheckRun
\* for each line with a non-empty name and a second tab-separated field,
\* with status and conclusion given by the reference table on the lower-cased
\* status word; banner lines, lines without a second field and lines with an
\* empty name contribute no CheckRun.
C23_TabularTable ==
  (pure.fn = "parseChecks" /\ pure.at = "returned") =>
    LET rows == ContributingLines(pure.arg) IN
    /\ Len(pure.out) = Len(rows)
    /\ \A i \in 1..Len(rows) :
         /\ pure.out[i].name = (IF rows[i][1] = "build " THEN "build" ELSE rows[i][1])
         /\ pure.out[i].status = TabularReference(rows[i][2]).status
         /\ pure.out[i].conclusion = TabularReference(rows[i][2]).conclusion

C23_Witness ==
  /\ pure.fn = "parseChecks" /\ pure.at = "returned"
  /\ pure.arg = <<<<"All checks were successful">>, <<"build", "skipping">>>>
  /\ pure.out = <<[name |-> "build", status |-> "completed", conclusion |-> "skipped"]>>

\* C24: applying the status and conclusion mappings to a canonical CheckRun
\* (status queued, in_progress or completed; conclusion success, failure,
\* neutral, cancelled, skipped, timed_out, action_required or null) returns
\* the same status and the same conclusion.
C24_NormalizerIdempotent ==
  (/\ pure.fn = "mapCheck" /\ pure.at = "returned"
   /\ pure.arg.status \in {"queued", "in_progress", "completed"}
   /\ pure.arg.conclusion \in {"success", "failure", "neutral", "cancelled",
                               "skipped", "timed_out", "action_required", "null"})
    => pure.out = pure.arg

\* C27: getFullDiffSinceTag returns the diff unchanged when its length is at
\* most maxLength, and otherwise the first maxLength characters of the diff
\* followed by the truncation marker.
C27_TruncationIsMarked ==
  (pure.fn = "getFullDiffSinceTag" /\ pure.at = "returned") =>
    LET diff == pure.arg.diff
        maxLength == pure.arg.maxLength
    IN IF Len(diff) <= maxLength THEN pure.out = diff
       ELSE /\ Len(pure.out) = maxLength + 22
            /\ \A i \in 1..maxLength : pure.out[i] = diff[i]
            /\ SubSeq(pure.out, maxLength + 1, Len(pure.out)) =
                 <<"\n", "\n", ".", ".", ".", " ", "(", "d", "i", "f", "f", " ",
                   "t", "r", "u", "n", "c", "a", "t", "e", "d", ")">>

C27_Witness ==
  /\ pure.fn = "getFullDiffSinceTag" /\ pure.at = "returned"
  /\ pure.arg.diff = <<"+", "-", "+">> /\ pure.arg.maxLength = 2
  /\ Len(pure.out) = 24 /\ pure.out[1] = "+" /\ pure.out[2] = "-" /\ pure.out[3] = "\n"

\* C28: for every diff longer than maxLength the value returned by
\* getFullDiffSinceTag is strictly shorter than the diff.
C28_TruncationShortens ==
  (/\ pure.fn = "getFullDiffSinceTag" /\ pure.at = "returned"
   /\ Len(pure.arg.diff) > pure.arg.maxLength)
    => Len(pure.out) < Len(pure.arg.diff)

\* C38: whenever waitForChecks returned success = false, the returned
\* snapshot holds a CheckRun with conclusion failure, so the "Failed: <name>"
\* lines of the changeset PR gate name at least one check.
C38_FailureReportNotEmpty ==
  pathOutcome = "checksFailed" =>
    /\ \E c \in returnedChecks : c.conclusion = "failure"
    /\ versionPr = 0 => failedChecks # <<>>

C38_Witness ==
  /\ Terminated /\ pathOutcome = "checksFailed" /\ versionPr = 0
  /\ failedChecks = <<"build">>
  /\ \E c \in returnedChecks : c.conclusion = "success"

C37_VersionPrIsFresh ==
  (gh.fn = "waitForVersionPackagesPR" /\ gh.at = "returned") =>
    gh.result \notin gh.openBefore

\* C31: for a response describing an open, unmerged pull request (state OPEN
\* and no merge timestamp present) getPullRequest returns merged = false
C31_OpenUnmergedIsNotMerged ==
  (/\ pure.fn = "getPullRequest" /\ pure.at = "returned"
   /\ pure.arg.state = "OPEN" /\ pure.arg.mergedAt \in {Absent, Null})
    => pure.out.merged = FALSE

\* the entries stored in a file that loads as a store
StoredNames(file) ==
  IF HasRepos(LoadStoredConfig(file)) THEN DOMAIN LoadStoredConfig(file).value.repos
  ELSE {}

\* C35 (the round trip): after addRepoConfig(name, config), getRepoConfig(name)
\* returns config, listRepos contains name, and every other entry stored
\* before is unchanged
C35_RoundTrip ==
  (pure.fn = "addRepoConfig" /\ pure.at = "returned") =>
    /\ GetRepoConfig(pure.out, pure.arg.name) =
         [at |-> "returned", out |-> <<pure.arg.config>>]
    /\ pure.arg.name \in ListRepos(pure.out).out
    /\ \A n \in StoredNames(pure.arg.file) \ {pure.arg.name} :
         GetRepoConfig(pure.out, n) = GetRepoConfig(pure.arg.file, n)

\* C35: stored configuration round-trips, and getRepoConfig returns null for
\* an unknown name and when the config file is missing or corrupted
C35_ConfigRoundTrip ==
  /\ C35_RoundTrip
  /\ (/\ pure.fn = "getRepoConfig" /\ pure.at \in {"returned", "thrown"}
      /\ \/ pure.arg.name \notin StoredNames(pure.arg.file)
         \/ pure.arg.file.kind = "missing"
         \/ ~HasRepos(pure.arg.file))
       => pure.at = "returned" /\ pure.out = <<>>

\* C32: with --wait the merge command calls mergePullRequest only after
\* waitForChecks returned success = true; when the checks fail or the wait
\* times out the command exits with code 1 and never calls mergePullRequest
C32_MergeWaitsForChecks ==
  (cli.cmd = "merge" /\ cli.wait) =>
    /\ cli.mergeCalls > 0 => cli.checks.called /\ ~cli.checks.threw /\ cli.checks.success
    /\ (cli.at = "exit" /\ cli.checks.called
          /\ (cli.checks.threw \/ ~cli.checks.success)) =>
         cli.exitCode = 1 /\ cli.mergeCalls = 0

\* the checks failed under --wait: exit code 1 and no merge
C32_Witness ==
  /\ cli.cmd = "merge" /\ cli.wait /\ cli.at = "exit"
  /\ cli.checks.called /\ ~cli.checks.threw /\ ~cli.checks.success
  /\ cli.exitCode = 1 /\ cli.mergeCalls = 0

\* C33: in JSON mode every terminating invocation of a command, the release
\* command included, emits a JSON object with a boolean success field: true
\* on success, false with an error message on every failure
C33_JsonModeAlwaysReports ==
  (cli.json /\ cli.at = "exit") =>
    /\ Len(cli.emitted) = 1
    /\ cli.emitted[1].success = (cli.exitCode = 0)
    /\ ~cli.emitted[1].success => cli.emitted[1].error # ""

\* C34: the WorkArea of this run differs from the WorkArea of a run
\* executing at the same time, and this run never removes or writes into
\* that directory
C34_WorkAreasAreDisjoint ==
  (cli.cmd = "analyze" /\ cli.other # NoDir) =>
    /\ cli.workDir # cli.other
    /\ cli.other \notin cli.touched
    /\ cli.other \in cli.dirs

\* C39: the analyze command leaves no WorkArea behind once it has cloned,
\* whichever way it exits
C39_AnalyzeAlwaysCleansUp ==
  (cli.cmd = "analyze" /\ cli.at = "exit" /\ cli.cloned) => cli.workDir \notin cli.dirs

====
